---------------------------- MODULE Spec2Model ----------------------------
(***************************************************************************)
(* Real-time plane of roomler-ai: the WebSocket connection registry        *)
(* (ws/storage.rs), the signaling dispatcher (ws/dispatcher.rs,            *)
(* ws/handler.rs), the HTTP message route that fans out over it            *)
(* (routes/message.rs), the transcription engine (transcription/engine.rs) *)
(* and the per-producer worker (transcription/worker.rs).                  *)
(***************************************************************************)
EXTENDS Integers, Sequences, FiniteSets, TLC

\* ------------------------------------------------------------------ bounds
MaxOps == 2
MaxEngOps == 3
MaxAudio == 4
MaxCallOps == 3
MaxAccepts == 3
MaxFileChunks == 2
MaxClipChunks == 7
MaxPipeOps == 2
MaxLagEvents == 258
MaxJoinOps == 3
MaxUpgradeOps == 4

\* ------------------------------------------------------------ the universe
Conns == {"c1", "c2", "c3"}
Users == {"u1", "u2"}
Rooms == {"r1", "r2"}
NoRoom == "none"
NoConn == "-"
\* a well-formed room id for which no media room exists
GhostRoom == "rx"

\* the token subject a socket was upgraded with (ws_upgrade -> handle_socket)
UserOf(c) == IF c = "c3" THEN "u2" ELSE "u1"

\* room_members documents (unique on (room_id, user_id)): user ids per room
RoomMembers == [r \in Rooms |-> IF r = "r1" THEN <<"u1", "u2">> ELSE <<"u2">>]

VARIABLES
    connections,     \* WsStorage.connections: user_id -> Vec<WsSender>
    connection_map,  \* WsStorage.connection_map: connection_id -> (user_id, sender)
    inbox,           \* per sink: the frames written to it, in order
    pc,              \* position of each socket task (handle_socket)
    remaining_conns, \* handle_socket local: peers computed before close_participant
    participants,    \* RoomManager: room -> connection ids with a participant record
    producers,       \* RoomManager: room -> producers (id, owner connection, kind)
    next_pid,        \* next producer id
    nops,            \* number of requests accepted so far
    budget,          \* number of requests the run accepts
    close_op,        \* request number of each socket close
    leaves,          \* history: one record per handled media:leave
    posts,           \* history: one record per message created over HTTP
    hpc,             \* per socket task: the handler suspended at an await, if any
    failed,          \* history: the media:* frames whose handling failed
    engine_on,       \* state.transcription_engine is Some
    room_models,     \* TranscriptionEngine.room_models: room -> backend name
    workers,         \* TranscriptionEngine.workers: key -> WorkerHandle (task id)
    tasks,           \* the worker tasks ever spawned, by task id
    taps,            \* RoomManager: producer id -> worker task fed by its RTP tap
    broadcast_active,     \* TranscriptionEngine.broadcast_active
    connection_playbacks, \* TranscriptionEngine.connection_playbacks
    btasks,          \* the transcript broadcast tasks ever spawned
    events,          \* transcript_tx: the TranscriptEvents published so far
    epoch,           \* history: per room, enables and spawns since the flag was last clear
    rtp_closed,      \* one live worker: the sender of its rtp_rx was dropped
    ingestion,       \* its ingestion task: "running", "done" or "aborted"
    wstatus,         \* its top-level task: "running", "returned" or "aborted"
    vad,             \* ingestion_loop: the voice activity detector
    segment_start_time,   \* ingestion_loop local
    now,             \* start_time.elapsed(), in milliseconds
    fed,             \* amount of audio the run has fed to the worker
    segment_tx,      \* the segment channel between ingestion and ASR
    published,       \* the TranscriptEvents this worker sent on transcript_tx
    segments,        \* one file playback worker: the segments it has yet to transcribe
    fstatus,         \* its task: "idle", "running" or "finished"
    conference_status,    \* rooms collection: conference_status of each room
    members,         \* room_members collection: the documents, by _id
    participant_count,    \* rooms collection: participant_count of each room
    routers,         \* RoomManager: room -> its media router, 0 when none
    reqs,            \* the HTTP requests accepted so far, finished or in flight
    invite,          \* invites collection: one invite
    tenant_members   \* tenant members

wsvars == <<connections, connection_map, inbox, pc, remaining_conns,
            participants, producers, next_pid, nops, budget, close_op, leaves,
            posts, hpc,
           failed>>

engvars == <<engine_on, room_models, workers, tasks, taps, broadcast_active,
             connection_playbacks, btasks, events, epoch>>

wkvars == <<rtp_closed, ingestion, wstatus, vad, segment_start_time, now, fed,
            segment_tx, published, segments, fstatus>>

callvars == <<conference_status, members, participant_count, routers, reqs,
              invite, tenant_members>>

vars == <<wsvars, engvars, wkvars, callvars>>

\* ----------------------------------------------------------------- helpers
SeqToSet(s) == {s[i] : i \in 1..Len(s)}

RECURSIVE Retain(_, _)
\* Vec::retain(|s| !Arc::ptr_eq(s, sender))
Retain(s, x) ==
    IF s = <<>> THEN <<>>
    ELSE IF Head(s) = x THEN Retain(Tail(s), x)
         ELSE <<Head(s)>> \o Retain(Tail(s), x)

RECURSIVE FilterNe(_, _)
\* .into_iter().filter(|id| id != user_id).collect()
FilterNe(s, x) ==
    IF s = <<>> THEN <<>>
    ELSE IF Head(s) = x THEN FilterNe(Tail(s), x)
         ELSE <<Head(s)>> \o FilterNe(Tail(s), x)

RECURSIVE SetToSeq(_)
SetToSeq(S) ==
    IF S = {} THEN <<>>
    ELSE LET x == CHOOSE y \in S : TRUE IN <<x>> \o SetToSeq(S \ {x})

\* a frame: its type, the connection (or HTTP user) whose request caused it,
\* the room, the request number, a producer id where there is one, and whether
\* the write to the sink succeeded
Msg(type, from, room, op, ref) ==
    [type |-> type, from |-> from, room |-> room, op |-> op, ref |-> ref,
     ok |-> TRUE]

\* a sink accepts a frame only while its socket is up
SinkUp(c) == pc[c] \in {"new", "open"}

\* guard.send(Message::text(text)): the frame is written, or the write fails
WriteSink(box, sink, msg) ==
    [box EXCEPT ![sink] = Append(@, [msg EXCEPT !.ok = SinkUp(sink)])]

\* -------------------------------------------------------------- WsStorage
get_senders(user_id) ==
    IF user_id \in DOMAIN connections THEN connections[user_id] ELSE <<>>

get_sender_by_connection(connection_id) ==
    IF connection_id \in DOMAIN connection_map
    THEN {connection_map[connection_id][2]} ELSE {}

all_user_ids == SetToSeq(DOMAIN connections)

StorageAdd(user_id, connection_id, sender) ==
    /\ connections' =
         [u \in DOMAIN connections \cup {user_id} |->
            IF u = user_id THEN Append(get_senders(user_id), sender)
            ELSE connections[u]]
    /\ connection_map' =
         [c \in DOMAIN connection_map \cup {connection_id} |->
            IF c = connection_id THEN <<user_id, sender>> ELSE connection_map[c]]

\* a remove that drops the user's whole entry
StorageRemove_entry(user_id, connection_id, sender) ==
    /\ connections' = [u \in DOMAIN connections \ {user_id} |-> connections[u]]
    /\ connection_map' =
         [c \in DOMAIN connection_map \ {connection_id} |-> connection_map[c]]

\* a remove that keeps the user's entry when its list is empty
StorageRemove_keep(user_id, connection_id, sender) ==
    /\ connections' =
         IF user_id \in DOMAIN connections
         THEN [connections EXCEPT ![user_id] = Retain(@, sender)]
         ELSE connections
    /\ connection_map' =
         [c \in DOMAIN connection_map \ {connection_id} |-> connection_map[c]]

StorageRemove(user_id, connection_id, sender) ==
    /\ connections' =
         IF user_id \in DOMAIN connections
         THEN LET kept == Retain(connections[user_id], sender) IN
              IF kept = <<>>
              THEN [u \in DOMAIN connections \ {user_id} |-> connections[u]]
              ELSE [connections EXCEPT ![user_id] = kept]
         ELSE connections
    /\ connection_map' =
         [c \in DOMAIN connection_map \ {connection_id} |-> connection_map[c]]

\* -------------------------------------------------------------- dispatcher
RECURSIVE SendEach_abort(_, _, _)
\* a loop over the senders that gives up at the first failed write
SendEach_abort(box, senders, msg) ==
    IF senders = <<>> THEN box
    ELSE IF ~SinkUp(Head(senders)) THEN WriteSink(box, Head(senders), msg)
    ELSE SendEach_abort(WriteSink(box, Head(senders), msg), Tail(senders), msg)

RECURSIVE SendEach(_, _, _)
\* for sender in senders { guard.send(..) }: an Err is logged
SendEach(box, senders, msg) ==
    IF senders = <<>> THEN box
    ELSE SendEach(WriteSink(box, Head(senders), msg), Tail(senders), msg)

RECURSIVE broadcast(_, _, _)
broadcast(box, user_ids, msg) ==
    IF user_ids = <<>> THEN box
    ELSE broadcast(SendEach(box, get_senders(Head(user_ids)), msg),
                   Tail(user_ids), msg)

send_to_user(box, user_id, msg) == broadcast(box, <<user_id>>, msg)

send_to_connection(box, connection_id, msg) ==
    SendEach(box, SetToSeq(get_sender_by_connection(connection_id)), msg)

RECURSIVE NotifyUsers(_, _, _)
\* a fan-out addressed to the users of the connections instead
NotifyUsers(box, conns, msg) ==
    IF conns = <<>> THEN box
    ELSE NotifyUsers(send_to_user(box, UserOf(Head(conns)), msg), Tail(conns), msg)

RECURSIVE SendToConnections(_, _, _)
\* for conn_id in &conns { send_to_connection(.., conn_id, &event).await }
SendToConnections(box, conns, msg) ==
    IF conns = <<>> THEN box
    ELSE SendToConnections(send_to_connection(box, Head(conns), msg),
                           Tail(conns), msg)

\* ------------------------------------------------------------ RoomManager
has_room(r) == r \in Rooms

get_connection_room(c) ==
    IF \E r \in Rooms : c \in participants[r]
    THEN CHOOSE r \in Rooms : c \in participants[r]
    ELSE NoRoom

get_other_connection_ids(r, exclude) ==
    IF has_room(r) THEN SetToSeq(participants[r] \ {exclude}) ELSE <<>>

\* producers_visible_to: the producers of the room not owned by `exclude`
get_producer_ids(r, exclude) ==
    IF has_room(r) THEN {p \in producers[r] : p.conn # exclude} ELSE {}

close_participant(r, c) ==
    /\ participants' =
         IF has_room(r) THEN [participants EXCEPT ![r] = @ \ {c}]
         ELSE participants
    /\ producers' =
         IF has_room(r) THEN [producers EXCEPT ![r] = {p \in @ : p.conn # c}]
         ELSE producers


\* ---------------------------------------------------- TranscriptionEngine
\* broadcast::channel(256)
BroadcastCap == 256
\* mpsc::channel::<SpeechSegment>(16)
SegmentCap == 16
\* const MIN_PARTIAL_SAMPLES: usize = 8000
MIN_PARTIAL_SAMPLES == 8000

Backends == {"whisper", "canary"}
DefaultBackend == "whisper"

\* worker keys: "{room}:{producer}" and "file:{room}:{uuid}"
LiveKey(room, pid) == [kind |-> "live", room |-> room, id |-> pid]
FileKey(room, uuid) == [kind |-> "file", room |-> room, id |-> uuid]

\* key.starts_with(&hex) || key.starts_with(&format!("file:{}", hex))
HasRoomPrefix(key, room) ==
    \/ key.kind = "live" /\ key.room = room
    \/ key.kind = "file" /\ key.room = room

\* the engine's tables (and the RTP taps its pipelines read) as one value, so
\* that the calls a handler makes in sequence compose
Eng ==
    [room_models |-> room_models, workers |-> workers, tasks |-> tasks,
     taps |-> taps, broadcast_active |-> broadcast_active,
     connection_playbacks |-> connection_playbacks, btasks |-> btasks,
     epoch |-> epoch]

SetEng(e) ==
    /\ room_models' = e.room_models
    /\ workers' = e.workers
    /\ tasks' = e.tasks
    /\ taps' = e.taps
    /\ broadcast_active' = e.broadcast_active
    /\ connection_playbacks' = e.connection_playbacks
    /\ btasks' = e.btasks
    /\ epoch' = e.epoch

Without(f, k) == [x \in DOMAIN f \ {k} |-> f[x]]
With(f, k, v) == [x \in DOMAIN f \cup {k} |-> IF x = k THEN v ELSE f[x]]

ZeroEpoch == [enables |-> 0, spawns |-> 0]

\* a try_start_broadcast that always reports an insertion
try_start_broadcast_always(active, room) ==
    [inserted |-> TRUE, active |-> active \cup {room}]

\* DashSet::insert: true iff the room was not in the set
try_start_broadcast(active, room) ==
    [inserted |-> room \notin active, active |-> active \cup {room}]

clear_broadcast(e, room) ==
    [e EXCEPT !.broadcast_active = @ \ {room}, !.epoch[room] = ZeroEpoch]

enable_room(e, room, model_name) ==
    [e EXCEPT !.room_models = With(@, room, model_name)]

is_enabled(e, room) == room \in DOMAIN e.room_models

\* AbortHandle::abort on a task: a task that already finished is unaffected
AbortTask(t) ==
    [t EXCEPT !.abort_called = TRUE,
              !.status = IF @ = "running" THEN "aborted" ELSE @]

stop_pipeline(e, key) ==
    IF key \in DOMAIN e.workers
    THEN [e EXCEPT !.workers = Without(@, key),
                   !.tasks[e.workers[key]] = AbortTask(@)]
    ELSE e

stop_producer(e, room, pid) == stop_pipeline(e, LiveKey(room, pid))

RECURSIVE StopEach(_, _)
StopEach(e, keys) ==
    IF keys = <<>> THEN e ELSE StopEach(stop_pipeline(e, Head(keys)), Tail(keys))

\* a disable_room that looks at live-producer keys only
disable_room_live(e, room) ==
    LET e1 == [e EXCEPT !.room_models = Without(@, room)]
        to_remove == {k \in DOMAIN e1.workers : k.kind = "live" /\ k.room = room}
        e2 == StopEach(e1, SetToSeq(to_remove))
    IN clear_broadcast(e2, room)

disable_room(e, room) ==
    LET e1 == [e EXCEPT !.room_models = Without(@, room)]
        to_remove == {k \in DOMAIN e1.workers : HasRoomPrefix(k, room)}
        e2 == StopEach(e1, SetToSeq(to_remove))
    IN clear_broadcast(e2, room)

get_backend(e, room) ==
    IF room \in DOMAIN e.room_models /\ e.room_models[room] \in Backends
    THEN e.room_models[room]
    ELSE DefaultBackend

\* tokio::spawn of the worker, then workers.insert(key, handle)
\* tokio::spawn(async move { worker.run().await; workers.remove(..) })
spawn_task(e, key, room, backend) ==
    [e EXCEPT !.tasks = Append(@, [key |-> key, room |-> room,
                                   backend |-> backend, status |-> "running",
                                   abort_called |-> FALSE])]

\* self.workers.insert(key, WorkerHandle { abort_handle })
insert_worker(e, key, t) == [e EXCEPT !.workers = With(@, key, t)]

\* the two in a row, when the spawned task does not get to run in between
spawn_worker(e, key, room, backend) ==
    insert_worker(spawn_task(e, key, room, backend), key, Len(e.tasks) + 1)

start_pipeline(e, room, pid) ==
    LET key == LiveKey(room, pid)
        e1 == IF key \in DOMAIN e.workers THEN stop_pipeline(e, key) ELSE e
    IN spawn_worker(e1, key, room, get_backend(e1, room))

\* the playback id is the worker key
NextPlaybackId(e, room) == FileKey(room, Len(e.tasks) + 1)

start_file_playback(e, room) ==
    spawn_worker(e, NextPlaybackId(e, room), room, get_backend(e, room))

track_playback(e, connection_id, playback_id) ==
    [e EXCEPT !.connection_playbacks =
        With(@, connection_id,
             Append(IF connection_id \in DOMAIN @ THEN @[connection_id] ELSE <<>>,
                    playback_id))]

stop_connection_playbacks_forget(e, connection_id) ==
    [e EXCEPT !.connection_playbacks = Without(@, connection_id)]

\* if let Some((_, playback_ids)) = self.connection_playbacks.remove(..)
stop_connection_playbacks(e, connection_id) ==
    IF connection_id \in DOMAIN e.connection_playbacks
    THEN StopEach([e EXCEPT !.connection_playbacks = Without(@, connection_id)],
                  e.connection_playbacks[connection_id])
    ELSE e

\* handler.rs spawn_transcript_broadcast: the task subscribes at the current
\* end of the channel
spawn_transcript_broadcast(e, room) ==
    LET t == try_start_broadcast(e.broadcast_active, room) IN
    IF ~t.inserted THEN e
    ELSE [e EXCEPT !.broadcast_active = t.active,
                   !.btasks = Append(@, [room |-> room, status |-> "running",
                                         cursor |-> Len(events)]),
                   !.epoch[room].spawns = @ + 1]

\* handler.rs start_transcription_pipeline: create_rtp_tap (which replaces the
\* producer's tap), then engine.start_pipeline; nothing when the tap fails
start_transcription_pipeline(e, room, pid) ==
    IF has_room(room) /\ \E p \in producers[room] : p.id = pid
    THEN start_pipeline([e EXCEPT !.taps = With(@, pid, Len(e.tasks) + 1)],
                        room, pid)
    ELSE e

RECURSIVE StartEach(_, _, _)
StartEach(e, room, pids) ==
    IF pids = <<>> THEN e
    ELSE StartEach(start_transcription_pipeline(e, room, Head(pids)), room,
                   Tail(pids))

\* ---------------------------------------------------------------- SileroVad
\* The detector segments the audio it is fed into utterances. It is fed here
\* in pieces of MIN_PARTIAL_SAMPLES samples that it classifies as speech or
\* as silence as a whole. `utterances` counts the utterances it has begun: the
\* audio it buffers and hands out is that of the last one.
VadNew == [active |-> FALSE, buffer |-> 0, utterances |-> 0]

\* vad.process(&pcm): the new detector state and the events returned
VadProcess(v, audio) ==
    IF ~v.active /\ audio = "speech"
    THEN [vad |-> [active |-> TRUE, buffer |-> MIN_PARTIAL_SAMPLES,
                   utterances |-> v.utterances + 1],
          events |-> <<"SpeechStart">>]
    ELSE IF v.active /\ audio = "speech"
    THEN [vad |-> [v EXCEPT !.buffer = @ + MIN_PARTIAL_SAMPLES],
          events |-> <<>>]
    ELSE IF v.active /\ audio = "silence"
    THEN [vad |-> [VadNew EXCEPT !.utterances = v.utterances],
          events |-> <<"SpeechEnd">>]
    ELSE [vad |-> v, events |-> <<>>]

\* ------------------------------------------------------------------- Init
\* A running server: some sockets are already connected and registered, some
\* of them already joined to a media room; nothing has been written yet to
\* the sinks since observation began.
OpenSeq(u, Open) == SetToSeq({c \in Open : UserOf(c) = u})

Idle == [step |-> "idle", room |-> NoRoom, pid |-> 0, model |-> "", op |-> 0, todo |-> <<>>]

InitMedia(eon, n, Opens, Placed, produced, Enabled) ==
    \E Open \in Opens :
    \E on \in Enabled :
    \E place \in {[c \in Open |-> r] : r \in Placed} :
        /\ connections =
             [u \in {UserOf(c) : c \in Open} |-> OpenSeq(u, Open)]
        /\ connection_map = [c \in Open |-> <<UserOf(c), c>>]
        /\ inbox = [c \in Conns |-> <<>>]
        /\ pc = [c \in Conns |-> IF c \in Open THEN "open" ELSE "new"]
        /\ remaining_conns = [c \in Conns |-> [room |-> NoRoom, conns |-> <<>>]]
        /\ participants = [r \in Rooms |-> {c \in Open : place[c] = r}]
        /\ producers = [r \in Rooms |-> IF r = "r1" THEN produced ELSE {}]
        /\ next_pid = Cardinality(produced) + 1
        /\ nops = 0
        /\ budget = n
        /\ close_op = [c \in Conns |-> 0]
        /\ leaves = {}
        /\ posts = {}
        /\ hpc = [c \in Conns |-> Idle]
        /\ failed = {}
        /\ engine_on = eon
        /\ room_models = IF on THEN [r \in {"r1"} |-> DefaultBackend] ELSE <<>>
        /\ tasks = IF on THEN <<[key |-> LiveKey("r1", 1), room |-> "r1",
                                  backend |-> DefaultBackend,
                                  status |-> "running", abort_called |-> FALSE]>>
                   ELSE <<>>
        /\ workers = IF on THEN [k \in {LiveKey("r1", 1)} |-> 1] ELSE <<>>
        /\ taps = IF on THEN [p \in {1} |-> 1] ELSE <<>>
        /\ broadcast_active = IF on THEN {"r1"} ELSE {}
        /\ connection_playbacks = <<>>
        /\ btasks = IF on THEN <<[room |-> "r1", status |-> "running",
                                   cursor |-> 0]>>
                    ELSE <<>>
        /\ events = <<>>
        /\ rtp_closed = FALSE
        /\ ingestion = "running"
        /\ wstatus = "running"
        /\ vad = VadNew
        /\ segment_start_time = 0
        /\ now = 0
        /\ fed = 0
        /\ segment_tx = <<>>
        /\ published = <<>>
        /\ segments = <<>>
        /\ fstatus = "idle"
        /\ epoch = [r \in Rooms |-> IF on /\ r = "r1"
                                    THEN [enables |-> 1, spawns |-> 1]
                                    ELSE ZeroEpoch]

\* the room_members documents of a server whose members have not joined a
\* call, except u1 who was in r1's call and left
InitialMembers ==
    SetToSeq({[room_id |-> ru[1], user_id |-> ru[2],
               sessions |-> IF ru = <<"r1", "u1">> THEN <<"closed">> ELSE <<>>] :
              ru \in {x \in Rooms \X Users :
                         x[2] \in SeqToSet(RoomMembers[x[1]])}})

\* the persistent side: every room is in a call (`st`) with its router, or in
\* no call and without router; u1 was in r1's call before and left, u2 never
\* joined a call; nobody has asked anything over HTTP yet
InitCalls(Status, tenant, MaxUses) ==
    \E st \in Status, mx \in MaxUses :
        /\ conference_status = [r \in Rooms |-> st]
        /\ members = InitialMembers
        /\ participant_count = [r \in Rooms |-> 0]
        /\ routers = [r \in Rooms |-> IF st = "in_progress" THEN 1 ELSE 0]
        /\ reqs = <<>>
        /\ invite = [status |-> "active", use_count |-> 0, max_uses |-> mx]
        /\ tenant_members = tenant

InitWith(eon, n, Opens, Placed, produced, Enabled) ==
    /\ InitMedia(eon, n, Opens, Placed, produced, Enabled)
    /\ InitCalls({"in_progress"}, Users, {1})

\* the signaling plane of a server started without a transcription engine
InitWs == InitWith(FALSE, MaxOps, {Conns, Conns \ {"c2"}}, {"r1", NoRoom}, {},
                  {FALSE})

\* a server with a transcription engine: two users are in a call in r1 and one
\* of them already sends audio; transcription of r1 is either not enabled, or
\* was enabled after the producer appeared, so that its pipeline and the
\* room's broadcast task are running
InitEng ==
    InitWith(TRUE, MaxEngOps, {{"c1", "c3"}}, {"r1"},
             {[id |-> 1, conn |-> "c1", kind |-> "audio"]}, BOOLEAN)

\* a socket task that is in its message loop, between two frames
Ready(c) == pc[c] = "open" /\ hpc[c].step = "idle" /\ nops < budget

\* ------------------------------------------------------- socket lifecycle
\* handle_socket up to the message loop
Connect(c) ==
    /\ pc[c] = "new"
    /\ nops < budget
    /\ nops' = nops + 1
    /\ StorageAdd(UserOf(c), c, c)
    /\ inbox' = WriteSink(inbox, c, Msg("connected", c, NoRoom, nops + 1, 0))
    /\ pc' = [pc EXCEPT ![c] = "open"]
    /\ UNCHANGED <<budget, posts, remaining_conns, participants, producers, next_pid,
                   close_op, leaves, hpc, engvars, failed, callvars, wkvars>>

\* the peer closes the socket, or it fails: receiver.next() will yield Close
\* or an error and the loop breaks
SocketClose(c) ==
    /\ pc[c] = "open"
    /\ nops < budget
    /\ nops' = nops + 1
    /\ close_op' = [close_op EXCEPT ![c] = nops + 1]
    /\ pc' = [pc EXCEPT ![c] = "closing"]
    /\ UNCHANGED <<budget, posts, connections, connection_map, inbox, remaining_conns,
                   participants, producers, next_pid, leaves, hpc, engvars, failed, callvars, wkvars>>

\* cleanup 1: state.ws_storage.remove(&user_id, &connection_id, &sender)
CleanupRemove(c) ==
    /\ pc[c] = "closing"
    /\ hpc[c].step = "idle"
    /\ StorageRemove(UserOf(c), c, c)
    /\ pc' = [pc EXCEPT ![c] = "removed"]
    /\ UNCHANGED <<budget, posts, inbox, remaining_conns, participants, producers, next_pid,
                   nops, close_op, leaves, hpc, engvars, failed, callvars, wkvars>>

\* the playbacks stopped as the first thing after the loop
CleanupStopPlaybacks_early(c) ==
    /\ pc[c] = "closing"
    /\ hpc[c].step = "idle"
    /\ SetEng(IF engine_on THEN stop_connection_playbacks(Eng, c) ELSE Eng)
    /\ pc' = [pc EXCEPT ![c] = "stopped"]
    /\ UNCHANGED <<budget, posts, connections, connection_map, inbox, remaining_conns,
                   participants, producers, next_pid, nops, close_op, leaves,
                   hpc, engine_on, failed, callvars, wkvars, events>>

\* cleanup 2: engine.stop_connection_playbacks(&connection_id)
CleanupStopPlaybacks(c) ==
    /\ pc[c] = "removed"
    /\ SetEng(IF engine_on THEN stop_connection_playbacks(Eng, c) ELSE Eng)
    /\ pc' = [pc EXCEPT ![c] = "stopped"]
    /\ UNCHANGED <<budget, posts, connections, connection_map, inbox, remaining_conns,
                   participants, producers, next_pid, nops, close_op, leaves,
                   hpc, engine_on, failed, callvars, wkvars, events>>

\* cleanup 3: get_connection_room, get_other_connection_ids, close_participant
CleanupParticipant(c) ==
    /\ pc[c] = "stopped"
    /\ LET room_id == get_connection_room(c) IN
       IF room_id = NoRoom
       THEN /\ pc' = [pc EXCEPT ![c] = "done"]
            /\ UNCHANGED <<remaining_conns, participants, producers>>
       ELSE /\ remaining_conns' =
                 [remaining_conns EXCEPT ![c] =
                    [room |-> room_id,
                     conns |-> get_other_connection_ids(room_id, c)]]
            /\ close_participant(room_id, c)
            /\ pc' = [pc EXCEPT ![c] = "parted"]
    /\ UNCHANGED <<budget, posts, connections, connection_map, inbox, next_pid, nops,
                   close_op, leaves, hpc, engvars, failed, callvars, wkvars>>

\* if !remaining_conns.is_empty() { for conn_id in &remaining_conns { .. } }
DisconnectFanout_user(box, c, room_id, conns, op) ==
    NotifyUsers(box, conns, Msg("media:peer_left", c, room_id, op, 0))

DisconnectFanout(box, c, room_id, conns, op) ==
    SendToConnections(box, conns, Msg("media:peer_left", c, room_id, op, 0))

\* cleanup 4: media:peer_left to each of remaining_conns
CleanupNotify(c) ==
    /\ pc[c] = "parted"
    /\ inbox' = DisconnectFanout(inbox, c, remaining_conns[c].room,
                                 remaining_conns[c].conns, close_op[c])
    /\ pc' = [pc EXCEPT ![c] = "done"]
    /\ UNCHANGED <<budget, posts, connections, connection_map, remaining_conns, participants,
                   producers, next_pid, nops, close_op, leaves, hpc, engvars, failed, callvars, wkvars>>

\* ------------------------------------------------- handle_client_message
\* "ping"
Ping(c) ==
    /\ Ready(c)
    /\ nops' = nops + 1
    /\ inbox' = send_to_user(inbox, UserOf(c), Msg("pong", c, NoRoom, nops + 1, 0))
    /\ UNCHANGED <<budget, posts, connections, connection_map, pc, remaining_conns,
                   participants, producers, next_pid, close_op, leaves, hpc,
                   engvars, failed, callvars, wkvars>>

\* "typing:start" | "typing:stop" with a room id that parses
Typing(c, r, type) ==
    /\ Ready(c)
    /\ nops' = nops + 1
    /\ LET recipients == FilterNe(RoomMembers[r], UserOf(c)) IN
       inbox' = broadcast(inbox, recipients, Msg(type, c, r, nops + 1, 0))
    /\ UNCHANGED <<budget, posts, connections, connection_map, pc, remaining_conns,
                   participants, producers, next_pid, close_op, leaves, hpc,
                   engvars, failed, callvars, wkvars>>

\* "presence:update" with a presence string
Presence(c) ==
    /\ Ready(c)
    /\ nops' = nops + 1
    /\ inbox' = broadcast(inbox, all_user_ids,
                          Msg("presence:update", c, NoRoom, nops + 1, 0))
    /\ UNCHANGED <<budget, posts, connections, connection_map, pc, remaining_conns,
                   participants, producers, next_pid, close_op, leaves, hpc,
                   engvars, failed, callvars, wkvars>>

\* a media:* frame of connection c that its handler gave up on: at the
\* validation of the frame, or later in the room manager
Failure(op, c, type, invalid) ==
    [op |-> op, conn |-> c, type |-> type,
     at |-> IF invalid THEN "validation" ELSE "room_manager"]

send_media_error(box, user_id, c, r, op) ==
    send_to_user(box, user_id, Msg("media:error", c, r, op, 0))

RECURSIVE SendProducers_user(_, _, _, _, _)
\* the producers announced to the user of the joiner instead
SendProducers_user(box, c, r, op, ps) ==
    IF ps = <<>> THEN box
    ELSE SendProducers_user(
            send_to_user(box, UserOf(c),
                Msg("media:new_producer", Head(ps).conn, r, op, Head(ps).id)),
            c, r, op, Tail(ps))

RECURSIVE SendProducers(_, _, _, _, _)
\* media:join: one media:new_producer per visible producer, to the joiner
SendProducers(box, c, r, op, ps) ==
    IF ps = <<>> THEN box
    ELSE SendProducers(
            send_to_connection(box, c,
                Msg("media:new_producer", Head(ps).conn, r, op, Head(ps).id)),
            c, r, op, Tail(ps))

\* "media:join": r is the room id of the frame ("" when missing or unparsable),
\* created tells whether create_transports succeeds
MediaJoin(c, r, created) ==
    /\ Ready(c)
    /\ r \in Rooms => get_connection_room(c) \in {NoRoom, r}
    /\ nops' = nops + 1
    /\ IF r = "" \/ ~has_room(r) \/ ~created
       THEN /\ inbox' = send_media_error(inbox, UserOf(c), c, r, nops + 1)
            /\ failed' = failed \cup {Failure(nops + 1, c, "media:join",
                                           r = "")}
            /\ UNCHANGED participants
       ELSE /\ participants' = [participants EXCEPT ![r] = @ \cup {c}]
            /\ LET b1 == send_to_connection(inbox, c,
                           Msg("media:router_capabilities", c, r, nops + 1, 0))
                   b2 == send_to_connection(b1, c,
                           Msg("media:transport_created", c, r, nops + 1, 0))
               IN inbox' = SendProducers(b2, c, r, nops + 1,
                                         SetToSeq(get_producer_ids(r, c)))
            /\ UNCHANGED failed
    /\ UNCHANGED <<budget, posts, connections, connection_map, pc, remaining_conns,
                   producers, next_pid, close_op, leaves, hpc, engvars, callvars, wkvars>>

\* "media:join", await by await. Up to create_transports, which makes the
\* connection a participant of the room
MediaJoinBegin(c, r, created) ==
    /\ Ready(c)
    /\ r \in Rooms => get_connection_room(c) \in {NoRoom, r}
    /\ nops' = nops + 1
    /\ IF r = "" \/ ~has_room(r) \/ ~created
       THEN /\ inbox' = send_media_error(inbox, UserOf(c), c, r, nops + 1)
            /\ failed' = failed \cup {Failure(nops + 1, c, "media:join",
                                           r = "")}
            /\ UNCHANGED <<participants, hpc>>
       ELSE /\ participants' = [participants EXCEPT ![r] = @ \cup {c}]
            /\ hpc' = [hpc EXCEPT ![c] = [step |-> "join_caps", room |-> r,
                                          pid |-> 0, model |-> "",
                                          op |-> nops + 1, todo |-> <<>>]]
            /\ UNCHANGED <<inbox, failed>>
    /\ UNCHANGED <<budget, posts, connections, connection_map, pc,
                   remaining_conns, producers, next_pid, close_op, leaves,
                   engvars, callvars, wkvars>>

\* media:router_capabilities to the connection
MediaJoinCaps(c) ==
    /\ hpc[c].step = "join_caps"
    /\ inbox' = send_to_connection(inbox, c,
                    Msg("media:router_capabilities", c, hpc[c].room,
                        hpc[c].op, 0))
    /\ hpc' = [hpc EXCEPT ![c].step = "join_transport"]
    /\ UNCHANGED <<budget, posts, connections, connection_map, pc,
                   remaining_conns, participants, producers, next_pid, nops,
                   close_op, leaves, failed, engvars, callvars, wkvars>>

\* media:transport_created to the connection
MediaJoinTransport(c) ==
    /\ hpc[c].step = "join_transport"
    /\ inbox' = send_to_connection(inbox, c,
                    Msg("media:transport_created", c, hpc[c].room,
                        hpc[c].op, 0))
    /\ hpc' = [hpc EXCEPT ![c].step = "join_producers"]
    /\ UNCHANGED <<budget, posts, connections, connection_map, pc,
                   remaining_conns, participants, producers, next_pid, nops,
                   close_op, leaves, failed, engvars, callvars, wkvars>>

\* get_producer_ids(&rid, connection_id) and a media:new_producer for each
MediaJoinProducers(c) ==
    /\ hpc[c].step = "join_producers"
    /\ inbox' = SendProducers(inbox, c, hpc[c].room, hpc[c].op,
                              SetToSeq(get_producer_ids(hpc[c].room, c)))
    /\ hpc' = [hpc EXCEPT ![c] = Idle]
    /\ UNCHANGED <<budget, posts, connections, connection_map, pc,
                   remaining_conns, participants, producers, next_pid, nops,
                   close_op, leaves, failed, engvars, callvars, wkvars>>

\* let other_conns = get_other_connection_ids(&rid, connection_id); for each
\* of them send_to_connection(media:new_producer)
ProduceFanout_all(box, c, r, op, pid) ==
    SendToConnections(box, get_other_connection_ids(r, ""),
                      Msg("media:new_producer", c, r, op, pid))

ProduceFanout(box, c, r, op, pid) ==
    SendToConnections(box, get_other_connection_ids(r, c),
                      Msg("media:new_producer", c, r, op, pid))

\* "media:produce", first part: validation, room_manager.produce, the result
\* to the caller, media:new_producer to the other connections, is_enabled
MediaProduce(c, r, kind, produced) ==
    /\ Ready(c)
    /\ nops' = nops + 1
    /\ IF r = "" \/ kind = "" \/ ~(produced /\ has_room(r) /\ c \in participants[r])
       THEN /\ inbox' = send_media_error(inbox, UserOf(c), c, r, nops + 1)
            /\ failed' = failed \cup {Failure(nops + 1, c, "media:produce",
                                           r = "" \/ kind = "")}
            /\ UNCHANGED <<producers, next_pid, hpc>>
       ELSE /\ producers' = [producers EXCEPT ![r] =
                    @ \cup {[id |-> next_pid, conn |-> c, kind |-> kind]}]
            /\ next_pid' = next_pid + 1
            /\ LET b1 == send_to_connection(inbox, c,
                           Msg("media:produce_result", c, r, nops + 1, next_pid))
               IN inbox' = ProduceFanout(b1, c, r, nops + 1, next_pid)
            /\ hpc' = IF kind = "audio" /\ engine_on /\ is_enabled(Eng, r)
                      THEN [hpc EXCEPT ![c] = [step |-> "produce2", room |-> r,
                                               pid |-> next_pid, model |-> "", op |-> 0, todo |-> <<>>]]
                      ELSE hpc
            /\ UNCHANGED failed
    /\ UNCHANGED <<budget, posts, connections, connection_map, pc, remaining_conns,
                   participants, close_op, leaves, engvars, callvars, wkvars>>

\* "media:produce", second part: start_transcription_pipeline, then
\* spawn_transcript_broadcast
ProducePipeline(c) ==
    /\ hpc[c].step = "produce2"
    /\ LET e1 == start_transcription_pipeline(Eng, hpc[c].room, hpc[c].pid)
       IN SetEng(spawn_transcript_broadcast(e1, hpc[c].room))
    /\ hpc' = [hpc EXCEPT ![c] = Idle]
    /\ UNCHANGED <<budget, posts, connections, connection_map, inbox, pc, remaining_conns,
                   participants, producers, next_pid, nops, close_op, leaves,
                   engine_on, failed, callvars, wkvars, events>>

\* RoomManager::consume: the connection is a participant of the room, the
\* producer is in the room, and the codecs fit
consume(r, c, pid, compatible) ==
    /\ has_room(r) /\ c \in participants[r]
    /\ \E p \in producers[r] : p.id = pid
    /\ compatible

\* "media:consume": r is "" and pid is 0 when missing or unparsable
MediaConsume(c, r, pid, compatible) ==
    /\ Ready(c)
    /\ nops' = nops + 1
    /\ IF r = "" \/ pid = 0 \/ ~consume(r, c, pid, compatible)
       THEN /\ inbox' = send_media_error(inbox, UserOf(c), c, r, nops + 1)
            /\ failed' = failed \cup {Failure(nops + 1, c, "media:consume",
                                           r = "" \/ pid = 0)}
       ELSE /\ inbox' = send_to_connection(inbox, c,
                           Msg("media:consumer_created", c, r, nops + 1, pid))
            /\ UNCHANGED failed
    /\ UNCHANGED <<budget, posts, connections, connection_map, pc,
                   remaining_conns, participants, producers, next_pid,
                   close_op, leaves, hpc, engvars, callvars, wkvars>>

\* "media:connect_transport": every missing or unparsable field ends the
\* handler, an error of room_manager.connect_transport is logged
MediaConnectTransport(c, r, connected) ==
    /\ Ready(c)
    /\ nops' = nops + 1
    /\ failed' = IF r = "" \/ ~connected
                 THEN failed \cup {Failure(nops + 1, c,
                                           "media:connect_transport", r = "")}
                 ELSE failed
    /\ UNCHANGED <<budget, posts, connections, connection_map, inbox, pc,
                   remaining_conns, participants, producers, next_pid,
                   close_op, leaves, hpc, engvars, callvars, wkvars>>

\* "media:leave" without data, without room_id or with one that does not
\* parse: the handler returns
MediaLeaveMalformed(c) ==
    /\ Ready(c)
    /\ nops' = nops + 1
    /\ failed' = failed \cup {Failure(nops + 1, c, "media:leave", TRUE)}
    /\ UNCHANGED <<budget, posts, connections, connection_map, inbox, pc,
                   remaining_conns, participants, producers, next_pid,
                   close_op, leaves, hpc, engvars, callvars, wkvars>>

\* "media:producer_close" with ids that parse
MediaProducerClose(c, r, pid) ==
    /\ Ready(c)
    /\ nops' = nops + 1
    /\ IF \E p \in producers[r] : p.id = pid /\ p.conn = c
       THEN /\ producers' = [producers EXCEPT ![r] = {p \in @ : p.id # pid}]
            /\ SetEng(LET e1 == IF engine_on THEN stop_producer(Eng, r, pid)
                                ELSE Eng
                      IN [e1 EXCEPT !.taps = Without(@, pid)])
            /\ inbox' = SendToConnections(inbox, get_other_connection_ids(r, c),
                           Msg("media:producer_closed", c, r, nops + 1, pid))
       ELSE UNCHANGED <<producers, inbox, room_models, workers, tasks, taps,
                        broadcast_active, connection_playbacks, btasks, epoch>>
    /\ UNCHANGED <<budget, posts, connections, connection_map, pc, remaining_conns,
                   participants, next_pid, close_op, leaves, hpc, engine_on, failed, callvars, wkvars,
                   events>>

\* if !other_conns.is_empty() { for conn_id in &other_conns { .. } }
LeaveFanout_user(box, c, r, other_conns, op) ==
    NotifyUsers(box, other_conns, Msg("media:peer_left", c, r, op, 0))

LeaveFanout(box, c, r, other_conns, op) ==
    SendToConnections(box, other_conns, Msg("media:peer_left", c, r, op, 0))

\* "media:leave" with a room id that parses
MediaLeave(c, r) ==
    /\ Ready(c)
    /\ nops' = nops + 1
    /\ LET other_conns == get_other_connection_ids(r, c) IN
       /\ close_participant(r, c)
       /\ inbox' = LeaveFanout(inbox, c, r, other_conns, nops + 1)
       /\ leaves' = leaves \cup
            {[op |-> nops + 1, conn |-> c, room |-> r,
              member |-> has_room(r) /\ c \in participants[r],
              peers |-> IF has_room(r) THEN participants[r] \ {c} ELSE {},
              up |-> {x \in Conns : pc[x] = "open"}]}
    /\ UNCHANGED <<budget, posts, connections, connection_map, pc, remaining_conns, next_pid,
                   close_op, hpc, engvars, failed, callvars, wkvars>>

TranscriptStatus(box, c, r, op) ==
    LET status_msg == Msg("media:transcript_status", c, r, op, 0) IN
    SendToConnections(send_to_connection(box, c, status_msg),
                      get_other_connection_ids(r, c), status_msg)

\* "media:transcript_toggle", enabled = true, first part: enable_room
ToggleOn(c, r, model) ==
    /\ Ready(c)
    /\ nops' = nops + 1
    /\ IF engine_on
       THEN /\ SetEng(enable_room(Eng, r, model))
            /\ hpc' = [hpc EXCEPT ![c] = [step |-> "toggle2", room |-> r,
                                          pid |-> 0, model |-> model, op |-> 0, todo |-> <<>>]]
            /\ UNCHANGED inbox
       ELSE /\ inbox' = TranscriptStatus(inbox, c, r, nops + 1)
            /\ UNCHANGED <<hpc, room_models, workers, tasks, taps,
                           broadcast_active, connection_playbacks, btasks, epoch>>
    /\ UNCHANGED <<budget, posts, connections, connection_map, pc, remaining_conns,
                   participants, producers, next_pid, close_op, leaves,
                   engine_on, failed, callvars, wkvars, events>>

\* second part: a pipeline per audio producer, spawn_transcript_broadcast,
\* media:transcript_status to the caller and to the others
TogglePipelines(c) ==
    /\ hpc[c].step = "toggle2"
    /\ LET r == hpc[c].room
           audio == {p.id : p \in {q \in get_producer_ids(r, "") : q.kind = "audio"}}
           e1 == StartEach(Eng, r, SetToSeq(audio))
           e2 == spawn_transcript_broadcast(e1, r)
       IN /\ SetEng([e2 EXCEPT !.epoch[r].enables = @ + 1])
          /\ inbox' = TranscriptStatus(inbox, c, r, nops)
    /\ hpc' = [hpc EXCEPT ![c] = Idle]
    /\ UNCHANGED <<budget, posts, connections, connection_map, pc, remaining_conns,
                   participants, producers, next_pid, nops, close_op, leaves,
                   engine_on, failed, callvars, wkvars, events>>

\* "media:transcript_toggle", enabled = false
ToggleOff(c, r) ==
    /\ Ready(c)
    /\ nops' = nops + 1
    /\ SetEng(IF engine_on THEN disable_room(Eng, r) ELSE Eng)
    /\ inbox' = TranscriptStatus(inbox, c, r, nops + 1)
    /\ UNCHANGED <<budget, posts, connections, connection_map, pc, remaining_conns,
                   participants, producers, next_pid, close_op, leaves, hpc,
                   engine_on, failed, callvars, wkvars, events>>

\* "media:transcript_toggle", enabled = true, on a runtime with several
\* threads, where engine.start_pipeline of one handler runs next to the
\* engine calls of other tasks. After enable_room: get_producer_ids
ToggleProducers(c) ==
    /\ hpc[c].step = "toggle2"
    /\ LET r == hpc[c].room
           audio == {p.id : p \in {q \in get_producer_ids(r, "") : q.kind = "audio"}}
       IN hpc' = [hpc EXCEPT ![c].step = "pipes", ![c].todo = SetToSeq(audio)]
    /\ UNCHANGED <<budget, posts, connections, connection_map, inbox, pc,
                   remaining_conns, participants, producers, next_pid, nops,
                   close_op, leaves, failed, engine_on, engvars, callvars,
                   wkvars>>

\* start_transcription_pipeline for the next producer of the list:
\* create_rtp_tap, and start_pipeline up to tokio::spawn (contains_key,
\* stop_pipeline, the backend, the spawn)
PipelineSpawn(c) ==
    /\ hpc[c].step = "pipes"
    /\ hpc[c].todo # <<>>
    /\ LET r == hpc[c].room
           pid == Head(hpc[c].todo)
           key == LiveKey(r, pid)
           t == Len(tasks) + 1
       IN IF has_room(r) /\ \E p \in producers[r] : p.id = pid
          THEN LET e0 == [Eng EXCEPT !.taps = With(@, pid, t)]
                   e1 == IF key \in DOMAIN e0.workers
                         THEN stop_pipeline(e0, key) ELSE e0
               IN /\ SetEng(spawn_task(e1, key, r, get_backend(e1, r)))
                  /\ hpc' = [hpc EXCEPT ![c].step = "pipe_insert",
                                        ![c].pid = t]
          ELSE /\ hpc' = [hpc EXCEPT ![c].todo = Tail(@)]
               /\ UNCHANGED engvars
    /\ UNCHANGED <<budget, posts, connections, connection_map, inbox, pc,
                   remaining_conns, participants, producers, next_pid, nops,
                   close_op, leaves, failed, engine_on, callvars, wkvars,
                   events>>

\* spawn_worker from self.workers.insert(key, handle) on
PipelineInsert(c) ==
    /\ hpc[c].step = "pipe_insert"
    /\ LET t == hpc[c].pid
       IN SetEng(insert_worker(Eng, tasks[t].key, t))
    /\ hpc' = [hpc EXCEPT ![c].step = "pipes", ![c].pid = 0,
                          ![c].todo = Tail(@)]
    /\ UNCHANGED <<budget, posts, connections, connection_map, inbox, pc,
                   remaining_conns, participants, producers, next_pid, nops,
                   close_op, leaves, failed, engine_on, callvars, wkvars,
                   events>>

\* after the loop: spawn_transcript_broadcast, media:transcript_status
ToggleFinish(c) ==
    /\ hpc[c].step = "pipes"
    /\ hpc[c].todo = <<>>
    /\ LET r == hpc[c].room
           e2 == spawn_transcript_broadcast(Eng, r)
       IN /\ SetEng([e2 EXCEPT !.epoch[r].enables = @ + 1])
          /\ inbox' = TranscriptStatus(inbox, c, r, nops)
    /\ hpc' = [hpc EXCEPT ![c] = Idle]
    /\ UNCHANGED <<budget, posts, connections, connection_map, pc,
                   remaining_conns, participants, producers, next_pid, nops,
                   close_op, leaves, failed, engine_on, callvars, wkvars,
                   events>>

AudioPlayback(box, c, r, op, ref) ==
    LET msg == Msg("media:audio_playback", c, r, op, ref) IN
    SendToConnections(send_to_connection(box, c, msg),
                      get_other_connection_ids(r, c), msg)

\* "media:play_audio" for a room and a file that are found
PlayAudio(c, r) ==
    /\ Ready(c)
    /\ nops' = nops + 1
    /\ IF engine_on
       THEN LET e1 == IF is_enabled(Eng, r) THEN Eng
                      ELSE enable_room(Eng, r, DefaultBackend)
                pid == NextPlaybackId(e1, r)
                e2 == track_playback(start_file_playback(e1, r), c, pid)
            IN /\ SetEng(spawn_transcript_broadcast(e2, r))
               /\ inbox' = AudioPlayback(inbox, c, r, nops + 1, pid.id)
       ELSE /\ SetEng(Eng)
            /\ inbox' = AudioPlayback(inbox, c, r, nops + 1, 0)
    /\ UNCHANGED <<budget, posts, connections, connection_map, pc, remaining_conns,
                   participants, producers, next_pid, close_op, leaves, hpc,
                   engine_on, failed, callvars, wkvars, events>>

\* "media:play_audio" on a runtime with several threads, where the task that
\* start_file_playback spawns may run before its entry is in the table:
\* the handler up to tokio::spawn
PlayAudioSpawn(c, r) ==
    /\ Ready(c)
    /\ engine_on
    /\ nops' = nops + 1
    /\ LET e1 == IF is_enabled(Eng, r) THEN Eng
                 ELSE enable_room(Eng, r, DefaultBackend)
       IN /\ SetEng(spawn_task(e1, NextPlaybackId(e1, r), r, get_backend(e1, r)))
          /\ hpc' = [hpc EXCEPT ![c] = [step |-> "insert", room |-> r,
                                        pid |-> Len(e1.tasks) + 1,
                                        model |-> "", op |-> 0, todo |-> <<>>]]
    /\ UNCHANGED <<budget, posts, connections, connection_map, inbox, pc,
                   remaining_conns, participants, producers, next_pid,
                   close_op, leaves, failed, engine_on, callvars, wkvars,
                   events>>

\* and from workers.insert on
PlayAudioInsert(c) ==
    /\ hpc[c].step = "insert"
    /\ LET t == hpc[c].pid
           r == hpc[c].room
           key == tasks[t].key
           e2 == track_playback(insert_worker(Eng, key, t), c, key)
       IN /\ SetEng(spawn_transcript_broadcast(e2, r))
          /\ inbox' = AudioPlayback(inbox, c, r, nops, key.id)
    /\ hpc' = [hpc EXCEPT ![c] = Idle]
    /\ UNCHANGED <<budget, posts, connections, connection_map, pc,
                   remaining_conns, participants, producers, next_pid, nops,
                   close_op, leaves, failed, engine_on, callvars, wkvars,
                   events>>

\* "media:stop_audio": playback_id is whatever string the frame carries
StopAudio(c, r, playback_id) ==
    /\ Ready(c)
    /\ nops' = nops + 1
    /\ SetEng(IF engine_on THEN stop_pipeline(Eng, playback_id) ELSE Eng)
    /\ inbox' = AudioPlayback(inbox, c, r, nops + 1, playback_id.id)
    /\ UNCHANGED <<budget, posts, connections, connection_map, pc, remaining_conns,
                   participants, producers, next_pid, close_op, leaves, hpc,
                   engine_on, failed, callvars, wkvars, events>>


\* --------------------------------------------------------- worker tasks
\* the RTP channel a live worker reads is open while its producer exists and
\* its tap has not been replaced
RtpOpen(t) ==
    /\ tasks[t].key.kind = "live"
    /\ \E p \in producers[tasks[t].room] : p.id = tasks[t].key.id
    /\ tasks[t].key.id \in DOMAIN taps
    /\ taps[tasks[t].key.id] = t

\* asr_loop / run_vad: transcript_tx.send(event)
WorkerPublish(t, final) ==
    /\ tasks[t].status = "running"
    /\ nops < budget
    /\ nops' = nops + 1
    /\ events' = Append(events, [room |-> tasks[t].room, task |-> t,
                                 is_final |-> final])
    /\ UNCHANGED <<connections, connection_map, inbox, pc, remaining_conns,
                   participants, producers, next_pid, budget, close_op,
                   leaves, posts, hpc, engine_on, failed, callvars, wkvars, room_models, workers, tasks,
                   taps, broadcast_active, connection_playbacks, btasks,
                   epoch>>

\* the spawned task: worker.run() returns (RTP channel closed, or the file is
\* done), then engine.workers.remove(&cleanup_key)
WorkerExit(t) ==
    /\ tasks[t].status = "running"
    /\ ~RtpOpen(t)
    /\ tasks' = [tasks EXCEPT ![t].status = "finished"]
    /\ workers' = Without(workers, tasks[t].key)
    /\ UNCHANGED <<wsvars, engine_on, callvars, wkvars, room_models, taps, broadcast_active,
                   connection_playbacks, btasks, events, epoch>>

\* ingestion_loop cannot make its Opus decoder, its resampler or its detector
\* and returns; the segment channel closes, asr_loop and run() return, and the
\* spawned task does engine.workers.remove(&cleanup_key)
WorkerFail(t) ==
    /\ tasks[t].status = "running"
    /\ tasks[t].key.kind = "live"
    /\ tasks' = [tasks EXCEPT ![t].status = "failed"]
    /\ workers' = Without(workers, tasks[t].key)
    /\ UNCHANGED <<wsvars, engine_on, callvars, wkvars, room_models, taps, broadcast_active,
                   connection_playbacks, btasks, events, epoch>>

\* the transcript broadcast task: one rx.recv() and what follows it
BroadcastStep(i) ==
    /\ btasks[i].status = "running"
    /\ btasks[i].cursor < Len(events)
    /\ LET room_id == btasks[i].room
           n == btasks[i].cursor + 1
           event == events[n]
       IN
       IF Len(events) - btasks[i].cursor > BroadcastCap
             \/ (event.room = room_id /\ ~is_enabled(Eng, room_id))
       THEN \* recv() is Err(Lagged), or the room is disabled: leave the loop
            /\ SetEng(clear_broadcast(
                   [Eng EXCEPT !.btasks[i].status = "exited",
                               !.btasks[i].cursor = n], room_id))
            /\ UNCHANGED inbox
       ELSE /\ SetEng([Eng EXCEPT !.btasks[i].cursor = n])
            /\ inbox' =
                 IF event.room # room_id THEN inbox
                 ELSE SendToConnections(inbox,
                          get_other_connection_ids(room_id, ""),
                          Msg("media:transcript", NoConn, room_id, n, i))
    /\ UNCHANGED <<connections, connection_map, pc, remaining_conns,
                   participants, producers, next_pid, nops, budget, close_op,
                   leaves, posts, hpc, engine_on, failed, callvars, wkvars, events>>

\* ------------------------------------------- TranscriptionWorker, in detail
\* format!("{}:{}:{:.3}", conf_hex, user_hex, segment_start_time): the start
\* time printed to the millisecond; room and user are those of the worker
SegmentId(start_ms) == [room |-> "r1", user |-> "u1", start |-> start_ms]

\* `audio` is the utterance whose audio the segment carries; start_ms is
\* the time printed into the segment_id, start_time the field of that name
SpeechSegment(final, start_ms, start_time, audio) ==
    [is_final |-> final, segment_id |-> SegmentId(start_ms),
     start_time |-> start_time, audio |-> audio]

\* duration_secs of a SpeechEnd: the length of the buffered speech
DurationOf(v) == v.buffer \div MIN_PARTIAL_SAMPLES

\* a turn whose PARTIAL is named after the moment it is sent
IngestTurn_elapsed(v, start, t, audio, lost, due) ==
    LET v1 == IF lost = "none" THEN v ELSE VadProcess(v, lost).vad
        r == VadProcess(v1, audio)
        started == r.events = <<"SpeechStart">>
        ended == r.events = <<"SpeechEnd">>
        start1 == IF started THEN t ELSE start
        finals == IF ended
                  THEN <<SpeechSegment(TRUE, start, t - DurationOf(v1),
                                       v1.utterances)>>
                  ELSE <<>>
        partials ==
            IF r.vad.active /\ due /\ ~started
                  /\ r.vad.buffer >= MIN_PARTIAL_SAMPLES
            THEN <<SpeechSegment(FALSE, t, start1, r.vad.utterances)>> ELSE <<>>
    IN [vad |-> r.vad, start |-> start1, sent |-> finals \o partials]

\* what one turn of the ingestion loop does with a piece of audio: `lost` is
\* "none", or what the concealed audio of a sequence gap before it sounds
\* like; `due` tells whether partial_interval has elapsed since the last
\* partial. Yields the detector, the utterance start and the segments sent.
IngestTurn(v, start, t, audio, lost, due) ==
    LET v1 == IF lost = "none" THEN v ELSE VadProcess(v, lost).vad
        r == VadProcess(v1, audio)
        started == r.events = <<"SpeechStart">>
        ended == r.events = <<"SpeechEnd">>
        start1 == IF started THEN t ELSE start
        finals == IF ended
                  THEN <<SpeechSegment(TRUE, start, t - DurationOf(v1),
                                       v1.utterances)>>
                  ELSE <<>>
        partials ==
            IF r.vad.active /\ due /\ ~started
                  /\ r.vad.buffer >= MIN_PARTIAL_SAMPLES
            THEN <<SpeechSegment(FALSE, start1, start1, r.vad.utterances)>>
            ELSE <<>>
    IN [vad |-> r.vad, start |-> start1, sent |-> finals \o partials]

\* ingestion_loop: rtp_rx.recv() yields packets, which are decoded and fed to
\* the detector
Ingest(audio, lost, due) ==
    /\ wstatus \in {"running", "aborted"} /\ ingestion = "running"
    /\ ~rtp_closed
    /\ fed < MaxAudio
    /\ LET turn == IngestTurn(vad, segment_start_time, now + 1, audio, lost, due)
       IN /\ Len(segment_tx) + Len(turn.sent) <= SegmentCap
          /\ vad' = turn.vad
          /\ segment_start_time' = turn.start
          /\ segment_tx' = segment_tx \o turn.sent
    /\ now' = now + 1
    /\ fed' = fed + 1
    /\ UNCHANGED <<wsvars, engvars, callvars, segments, fstatus, rtp_closed, ingestion, wstatus, published>>

\* the producer goes away (media:leave, socket close, producer close): the
\* sender side of rtp_rx is dropped
RtpClose ==
    /\ ~rtp_closed
    /\ rtp_closed' = TRUE
    /\ UNCHANGED <<wsvars, engvars, callvars, segments, fstatus, ingestion, wstatus, vad,
                   segment_start_time, now, fed, segment_tx, published>>

\* ingestion_loop: rtp_rx.recv() yields None, the loop breaks and the task
\* ends, which drops segment_tx
IngestionExit ==
    /\ wstatus \in {"running", "aborted"} /\ ingestion = "running"
    /\ rtp_closed
    /\ ingestion' = "done"
    /\ UNCHANGED <<wsvars, engvars, callvars, segments, fstatus, rtp_closed, wstatus, vad,
                   segment_start_time, now, fed, segment_tx, published>>

\* A text is a sequence of pieces, each an indivisible run of characters;
\* the string is their concatenation. str::to_lowercase, piece by piece:
Lower(p) ==
    CASE p = "You" -> "you"
      [] p = "Thank You." -> "thank you."
      [] p = "THANKS FOR WATCHING!" -> "thanks for watching!"
      [] p = "[BLANK_AUDIO]" -> "[blank_audio]"
      [] p = "[Silence]" -> "[silence]"
      [] p = "[MUSIC]" -> "[music]"
      [] p = "(Music)" -> "(music)"
      [] p = "(SILENCE)" -> "(silence)"
      [] OTHER -> p

to_lowercase(text) == [i \in DOMAIN text |-> Lower(text[i])]

contains(text, piece) == \E i \in DOMAIN text : text[i] = piece

RECURSIVE trim_start(_)
trim_start(text) ==
    IF text # <<>> /\ Head(text) = " " THEN trim_start(Tail(text)) ELSE text

RECURSIVE trim_end(_)
trim_end(text) ==
    IF text # <<>> /\ text[Len(text)] = " "
    THEN trim_end(SubSeq(text, 1, Len(text) - 1)) ELSE text

\* str::trim
trim(text) == trim_end(trim_start(text))

is_hallucination_cased(text) ==
    \/ contains(text, "[blank_audio]")
    \/ contains(text, "[silence]")
    \/ contains(text, "[music]")
    \/ contains(text, "(silence)")
    \/ contains(text, "(music)")
    \/ text = <<"you">>
    \/ text = <<"thank you.">>
    \/ text = <<"thanks for watching!">>

\* worker.rs is_hallucination
is_hallucination(text) ==
    LET lower == to_lowercase(text) IN
    \/ contains(lower, "[blank_audio]")
    \/ contains(lower, "[silence]")
    \/ contains(lower, "[music]")
    \/ contains(lower, "(silence)")
    \/ contains(lower, "(music)")
    \/ lower = <<"you">>
    \/ lower = <<"thank you.">>
    \/ lower = <<"thanks for watching!">>

\* file_playback.rs is_hallucination
file_is_hallucination(text) ==
    LET lower == to_lowercase(text) IN
    \/ contains(lower, "[blank_audio]")
    \/ contains(lower, "[silence]")
    \/ contains(lower, "[music]")
    \/ contains(lower, "(silence)")
    \/ contains(lower, "(music)")
    \/ lower = <<"you">>
    \/ lower = <<"thank you.">>
    \/ lower = <<"thanks for watching!">>

\* what asr.transcribe(request).await can give back
AsrError == [ok |-> FALSE, text |-> <<>>]

AsrOk(text) == [ok |-> TRUE, text |-> text]

\* the TranscriptEvent made of a segment and the text kept for it
TranscriptOf(segment, text, worker) ==
    [is_final |-> segment.is_final, segment_id |-> segment.segment_id,
     text |-> text, worker |-> worker, utterance |-> segment.audio,
     start_time |-> segment.start_time]

\* asr_loop: one segment received, transcribed, and published when the
\* trimmed text is not empty and no hallucination
AsrTurn(result) ==
    /\ wstatus = "running"
    /\ segment_tx # <<>>
    /\ segment_tx' = Tail(segment_tx)
    /\ LET text == trim(result.text) IN
       published' = IF result.ok /\ ~(text = <<>> \/ is_hallucination(text))
                    THEN Append(published,
                                TranscriptOf(Head(segment_tx), text, "live"))
                    ELSE published
    /\ UNCHANGED <<wsvars, engvars, callvars, rtp_closed, ingestion, wstatus, vad,
                   segment_start_time, now, fed, segments, fstatus>>

\* the task the engine spawned for this worker, and its key in the table
WorkerTask == 1

\* a worker that returns as soon as its ingestion is over
WorkerReturn_undrained ==
    /\ wstatus = "running"
    /\ ingestion = "done"
    /\ wstatus' = "returned"
    /\ tasks' = [tasks EXCEPT ![WorkerTask].status = "finished"]
    /\ workers' = Without(workers, tasks[WorkerTask].key)
    /\ UNCHANGED <<wsvars, engine_on, room_models, taps, broadcast_active,
                   connection_playbacks, btasks, events, epoch, callvars,
                   segments, fstatus, rtp_closed, ingestion, vad,
                   segment_start_time, now, fed, segment_tx, published>>

\* asr_loop: segment_rx.recv() yields None once the channel is empty and its
\* sender dropped; run() returns, and the spawned task removes its key
WorkerReturn ==
    /\ wstatus = "running"
    /\ ingestion = "done" /\ segment_tx = <<>>
    /\ wstatus' = "returned"
    /\ tasks' = [tasks EXCEPT ![WorkerTask].status = "finished"]
    /\ workers' = Without(workers, tasks[WorkerTask].key)
    /\ UNCHANGED <<wsvars, engine_on, room_models, taps, broadcast_active,
                   connection_playbacks, btasks, events, epoch, callvars,
                   segments, fstatus, rtp_closed, ingestion, vad,
                   segment_start_time, now, fed, segment_tx, published>>

\* stop_pipeline(key) while the worker is at an await point: the entry is
\* removed and the abort handle used; the task will not be polled again
WorkerAbort ==
    /\ wstatus = "running"
    /\ tasks[WorkerTask].key \in DOMAIN workers
    /\ SetEng(stop_pipeline(Eng, tasks[WorkerTask].key))
    /\ wstatus' = "aborted"
    /\ UNCHANGED <<wsvars, engine_on, events, callvars, segments, fstatus,
                   rtp_closed, ingestion, vad, segment_start_time, now, fed,
                   segment_tx, published>>

JoinHandleDrop(task) == task

\* impl Drop for AbortOnDrop: self.0.abort()
AbortOnDrop(task) == IF task = "running" THEN "aborted" ELSE task

\* the runtime drops the future of run(): its guard aborts the ingestion task
\* and the receiving end of the segment channel goes away
WorkerCancel ==
    /\ wstatus = "aborted"
    /\ wstatus' = "cancelled"
    /\ ingestion' = AbortOnDrop(ingestion)
    /\ segment_tx' = <<>>
    /\ UNCHANGED <<wsvars, engvars, callvars, segments, fstatus, rtp_closed,
                   vad, segment_start_time, now, fed, published>>

\* ------------------------------------------------------- file_playback.rs
\* run_vad over the file in pieces: sample_offset counts the pieces fed
\* before the one at hand. Only SpeechEnd makes a segment, always a FINAL
\* one, with start_secs = end_secs - duration_secs, and it is pushed at the
\* end of the vector.
RECURSIVE RunVad(_, _, _, _)
RunVad(v, sample_offset, audio, segs) ==
    IF audio = <<>> THEN segs
    ELSE LET r == VadProcess(v, Head(audio))
             end_secs == sample_offset
             start_secs == end_secs - DurationOf(v)
             segs1 == IF r.events = <<"SpeechEnd">>
                      THEN Append(segs, SpeechSegment(TRUE, start_secs,
                                                      start_secs, v.utterances))
                      ELSE segs
         IN RunVad(r.vad, sample_offset + 1, Tail(audio), segs1)

\* the segments of a file, the last utterance first
run_vad_newest_first(audio, vad_ok) ==
    IF ~vad_ok THEN <<SpeechSegment(TRUE, 0, 0, 1)>>
    ELSE LET segs == RunVad(VadNew, 0, audio \o <<"silence">>, <<>>)
         IN [i \in 1..Len(segs) |-> segs[Len(segs) + 1 - i]]

\* the file, then the flush with silence; when the detector cannot be made
\* the whole file is one segment that starts at 0.0
run_vad(audio, vad_ok) ==
    IF ~vad_ok THEN <<SpeechSegment(TRUE, 0, 0, 1)>>
    ELSE RunVad(VadNew, 0, audio \o <<"silence">>, <<>>)

\* FilePlaybackWorker::run up to its first await: the file is read and cut
\* into segments
FilePlaybackStart(audio, vad_ok) ==
    /\ fstatus = "idle"
    /\ fstatus' = "running"
    /\ segments' = run_vad(audio, vad_ok)
    /\ UNCHANGED <<wsvars, engvars, callvars, rtp_closed, ingestion, wstatus,
                   vad, segment_start_time, now, fed, segment_tx, published>>

\* one turn of the loop over the segments
FilePlaybackTurn(result) ==
    /\ fstatus = "running"
    /\ segments # <<>>
    /\ segments' = Tail(segments)
    /\ LET text == trim(result.text) IN
       published' = IF result.ok /\ ~(text = <<>> \/ file_is_hallucination(text))
                    THEN Append(published,
                                TranscriptOf(Head(segments), text, "file"))
                    ELSE published
    /\ UNCHANGED <<wsvars, engvars, callvars, rtp_closed, ingestion, wstatus,
                   vad, segment_start_time, now, fed, segment_tx, fstatus>>

\* the loop is over, run() returns
FilePlaybackReturn ==
    /\ fstatus = "running"
    /\ segments = <<>>
    /\ fstatus' = "finished"
    /\ UNCHANGED <<wsvars, engvars, callvars, rtp_closed, ingestion, wstatus,
                   vad, segment_start_time, now, fed, segment_tx, published,
                   segments>>

\* ------------------------------------------------------ routes/message.rs
RECURSIVE NotifyEach(_, _, _)
NotifyEach(box, user_ids, msg) ==
    IF user_ids = <<>> THEN box
    ELSE NotifyEach(send_to_user(box, Head(user_ids), msg), Tail(user_ids), msg)

\* find_member_user_ids(rid).into_iter().filter(|id| *id != auth.user_id)
MessageRecipients_all(r, u) == RoomMembers[r]

MessageRecipients(r, u) == FilterNe(RoomMembers[r], u)

\* POST .../room/{room_id}/message by tenant member u; mention is "none",
\* "everyone" or a mentioned user
HttpMessageCreate(u, r, mention) ==
    /\ nops < budget
    /\ nops' = nops + 1
    /\ LET member_ids == MessageRecipients(r, u)
           mentioned == IF mention = "none" THEN <<>>
                        ELSE IF mention = "everyone" THEN member_ids
                        ELSE FilterNe(<<mention>>, u)
           b1 == broadcast(inbox, member_ids,
                           Msg("message:create", u, r, nops + 1, 0))
       IN inbox' = NotifyEach(b1, mentioned,
                              Msg("notification:new", u, r, nops + 1, 0))
    /\ posts' = posts \cup
         {[op |-> nops + 1, user |-> u, room |-> r,
           registered |-> DOMAIN connection_map,
           up |-> {x \in Conns : pc[x] = "open"}]}
    /\ UNCHANGED <<budget, connections, connection_map, pc, remaining_conns,
                   participants, producers, next_pid, close_op, leaves, hpc,
                   engvars, failed, callvars, wkvars>>

\* --------------------------------------------------------- routes/room.rs
\* an HTTP request as the server sees it: `was` is the call state of the room
\* when it arrived, `overlap` tells whether a call_start or call_end on the
\* same room was in flight at any time together with it
Request(kind, room, user) ==
    [kind |-> kind, room |-> room, user |-> user, step |-> "done",
     status |-> 0, was |-> IF room \in Rooms THEN conference_status[room]
                           ELSE "idle",
     overlap |-> FALSE, added |-> FALSE, failed_at |-> "",
     doc |-> 0, inc |-> 0, seen |-> <<>>, conn |-> NoConn, token |-> <<>>]

CallKinds == {"call_start", "call_end"}

Overlaps(q, kind, room) ==
    /\ \/ kind \in CallKinds /\ q.kind \in CallKinds
       \/ kind = "accept" /\ q.kind = "accept"
    /\ q.room = room /\ q.step # "done"

\* the request is accepted: it gets the next request number
Accept(q) ==
    LET hit == \E i \in DOMAIN reqs : Overlaps(reqs[i], q.kind, q.room)
        old == [i \in DOMAIN reqs |->
                  IF Overlaps(reqs[i], q.kind, q.room)
                  THEN [reqs[i] EXCEPT !.overlap = TRUE] ELSE reqs[i]]
    IN Append(old, [q EXCEPT !.overlap = hit])

\* the request ends with an error
Reject(i, code, at) ==
    reqs' = [reqs EXCEPT ![i].step = "done", ![i].status = code,
                         ![i].failed_at = at]

\* TenantDao::is_member
is_member(tm, user_id) == user_id \in tm

\* RoomDao::start_call / end_call: $set conference_status
start_call(st, room_id) == [st EXCEPT ![room_id] = "in_progress"]

end_call_idle(st, room_id) == [st EXCEPT ![room_id] = "idle"]

end_call(st, room_id) == [st EXCEPT ![room_id] = "ended"]

\* RoomManager::create_room: idempotent, an existing router is kept
create_room(rt, room_id, fresh) ==
    IF rt[room_id] # 0 THEN rt ELSE [rt EXCEPT ![room_id] = fresh]

\* RoomManager::remove_room
remove_room(rt, room_id) == [rt EXCEPT ![room_id] = 0]

\* RoomManager::get_participant_user_ids
get_participant_user_ids(parts, room_id) ==
    SetToSeq({UserOf(c) : c \in parts[room_id]})

\* RoomDao::find_member_user_ids over the room_members collection
find_member_user_ids(m, room_id) ==
    SetToSeq({m[i].user_id : i \in {j \in DOMAIN m : m[j].room_id = room_id}})

\* POST .../room/{room_id}/call/start, up to the await of create_room
CallStartBegin(u, r) ==
    /\ nops < budget
    /\ nops' = nops + 1
    /\ IF ~is_member(tenant_members, u)
       THEN /\ reqs' = Accept([Request("call_start", r, u) EXCEPT !.status = 403])
            /\ UNCHANGED conference_status
       ELSE /\ conference_status' = start_call(conference_status, r)
            /\ reqs' = Accept([Request("call_start", r, u) EXCEPT
                                  !.step = "create_room"])
    /\ UNCHANGED <<connections, connection_map, inbox, pc, remaining_conns,
                   participants, producers, next_pid, budget, close_op,
                   leaves, posts, hpc, engvars, failed, wkvars, members,
                   participant_count, routers, invite, tenant_members>>

\* create_room, then room:call_started to the members of the room
CallStartFinish(i) ==
    /\ reqs[i].kind = "call_start" /\ reqs[i].step = "create_room"
    /\ routers' = create_room(routers, reqs[i].room, i + 1)
    /\ inbox' = broadcast(inbox, find_member_user_ids(members, reqs[i].room),
                          Msg("room:call_started", reqs[i].user, reqs[i].room,
                              i, 0))
    /\ reqs' = [reqs EXCEPT ![i].step = "done", ![i].status = 200]
    /\ UNCHANGED <<connections, connection_map, pc, remaining_conns,
                   participants, producers, next_pid, nops, budget, close_op,
                   leaves, posts, hpc, engvars, failed, wkvars, conference_status,
                   members, participant_count, invite, tenant_members>>

\* POST .../call/end, up to remove_room
CallEndBegin(u, r) ==
    /\ nops < budget
    /\ nops' = nops + 1
    /\ IF ~is_member(tenant_members, u)
       THEN /\ reqs' = Accept([Request("call_end", r, u) EXCEPT !.status = 403])
            /\ UNCHANGED conference_status
       ELSE /\ conference_status' = end_call(conference_status, r)
            /\ reqs' = Accept([Request("call_end", r, u) EXCEPT
                                  !.step = "remove_room"])
    /\ UNCHANGED <<connections, connection_map, inbox, pc, remaining_conns,
                   participants, producers, next_pid, budget, close_op,
                   leaves, posts, hpc, engvars, failed, wkvars, members,
                   participant_count, routers, invite, tenant_members>>

\* remove_room (the participants go with the router), media:room_closed to
\* the participants that remain, room:call_ended to the members
CallEndFinish(i) ==
    /\ reqs[i].kind = "call_end" /\ reqs[i].step = "remove_room"
    /\ LET r == reqs[i].room
           parts == [participants EXCEPT ![r] = {}]
           remaining == get_participant_user_ids(parts, r)
           b1 == broadcast(inbox, remaining,
                           Msg("media:room_closed", reqs[i].user, r, i, 0))
       IN /\ routers' = remove_room(routers, r)
          /\ participants' = parts
          /\ producers' = [producers EXCEPT ![r] = {}]
          /\ inbox' = broadcast(b1, find_member_user_ids(members, r),
                                Msg("room:call_ended", reqs[i].user, r, i, 0))
    /\ reqs' = [reqs EXCEPT ![i].step = "done", ![i].status = 200]
    /\ UNCHANGED <<connections, connection_map, pc, remaining_conns, next_pid,
                   nops, budget, close_op, leaves, posts, hpc, engvars, failed,
                   wkvars, conference_status, members, participant_count,
                   invite, tenant_members>>

\* RoomDao::join_participant, its queries and updates.
\* find_one {room_id, user_id, "sessions.left_at": null}: the ids of the
\* documents it can return; the filter matches a document with an open
\* session and also one without any session
existing(m, room_id, user_id) ==
    {i \in DOMAIN m :
        /\ m[i].room_id = room_id /\ m[i].user_id = user_id
        /\ (m[i].sessions = <<>>
              \/ \E n \in DOMAIN m[i].sessions : m[i].sessions[n] = "open")}

\* find_one {room_id, user_id}
rejoining(m, room_id, user_id) ==
    {i \in DOMAIN m : m[i].room_id = room_id /\ m[i].user_id = user_id}

\* update_one({_id}, {$push: {sessions: session}})
push_session(m, id) == [m EXCEPT ![id].sessions = Append(@, "open")]

\* an insert into a collection without unique index
insert_one_unindexed(m, member) == [ok |-> TRUE, members |-> Append(m, member)]

\* members.insert_one(&member) under index_unique {room_id, user_id}
insert_one(m, member) ==
    IF \E i \in DOMAIN m : m[i].room_id = member.room_id
                              /\ m[i].user_id = member.user_id
    THEN [ok |-> FALSE, members |-> m]
    ELSE [ok |-> TRUE, members |-> Append(m, member)]

\* the brand-new member document
RoomMember(room_id, user_id) ==
    [room_id |-> room_id, user_id |-> user_id, sessions |-> <<"open">>]

\* the whole of join_participant when nothing else touches the collection:
\* the collection after it and what is added to participant_count
join_participant(m, room_id, user_id) ==
    LET ex == existing(m, room_id, user_id)
        re == rejoining(m, room_id, user_id)
    IN IF ex # {}
       THEN [members |-> push_session(m, CHOOSE i \in ex : TRUE), inc |-> 0]
       ELSE IF re # {}
       THEN [members |-> push_session(m, CHOOSE i \in re : TRUE), inc |-> 1]
       ELSE [members |-> insert_one(m, RoomMember(room_id, user_id)).members,
             inc |-> 1]

\* POST .../call/join
CallJoin(u, r) ==
    /\ nops < budget
    /\ nops' = nops + 1
    /\ IF ~is_member(tenant_members, u)
       THEN /\ reqs' = Accept([Request("call_join", r, u) EXCEPT !.status = 403])
            /\ UNCHANGED <<members, participant_count, inbox>>
       ELSE LET j == join_participant(members, r, u) IN
            /\ members' = j.members
            /\ participant_count' = [participant_count EXCEPT ![r] = @ + j.inc]
            /\ inbox' = broadcast(inbox, find_member_user_ids(j.members, r),
                                  Msg("room:call_updated", u, r, nops + 1, 0))
            /\ reqs' = Accept([Request("call_join", r, u) EXCEPT
                                  !.status = 200, !.added = TRUE])
    /\ UNCHANGED <<connections, connection_map, pc, remaining_conns,
                   participants, producers, next_pid, budget, close_op,
                   leaves, posts, hpc, engvars, failed, wkvars, conference_status,
                   routers, invite, tenant_members>>

\* RoomDao::leave_participant: update_one with the array filter
\* elem.left_at = null closes every open session of the (room, user) document,
\* then $inc participant_count by -1
leave_participant(m, room_id, user_id) ==
    [members |->
        [i \in DOMAIN m |->
            IF m[i].room_id = room_id /\ m[i].user_id = user_id
            THEN [m[i] EXCEPT !.sessions =
                     [n \in DOMAIN @ |-> IF @[n] = "open" THEN "closed" ELSE @[n]]]
            ELSE m[i]],
     inc |-> -1]

\* RoomManager::close_participant_by_user: the participants of the user's
\* connections leave the room, with their producers
close_participant_by_user(parts, room_id, user_id) ==
    [parts EXCEPT ![room_id] = {c \in @ : UserOf(c) # user_id}]

\* POST .../call/leave
CallLeave(u, r) ==
    /\ nops < budget
    /\ nops' = nops + 1
    /\ IF ~is_member(tenant_members, u)
       THEN /\ reqs' = Accept([Request("call_leave", r, u) EXCEPT !.status = 403])
            /\ UNCHANGED <<members, participant_count, inbox, participants,
                           producers>>
       ELSE LET l == leave_participant(members, r, u)
                parts == close_participant_by_user(participants, r, u)
                remaining == get_participant_user_ids(parts, r)
            IN /\ participants' = parts
               /\ producers' = [producers EXCEPT ![r] =
                                   {p \in @ : UserOf(p.conn) # u}]
               /\ inbox' = IF remaining = <<>> THEN inbox
                           ELSE broadcast(inbox, remaining,
                                    Msg("media:peer_left", u, r, nops + 1, 0))
               /\ members' = l.members
               /\ participant_count' =
                     [participant_count EXCEPT ![r] = @ + l.inc]
               /\ reqs' = Accept([Request("call_leave", r, u) EXCEPT
                                     !.status = 200])
    /\ UNCHANGED <<connections, connection_map, pc, remaining_conns,
                   next_pid, budget, close_op, leaves, posts, hpc, engvars,
                   failed, wkvars, conference_status, routers, invite,
                   tenant_members>>

\* POST .../call/join, await by await. Up to the first find_one of
\* join_participant: `seen` keeps the sessions of the document it returned
JoinBegin(u, r) ==
    /\ nops < budget
    /\ nops' = nops + 1
    /\ IF ~is_member(tenant_members, u)
       THEN reqs' = Accept([Request("call_join", r, u) EXCEPT !.status = 403])
       ELSE IF existing(members, r, u) # {}
       THEN \E id \in existing(members, r, u) :
               reqs' = Accept([Request("call_join", r, u) EXCEPT
                                 !.step = "push", !.doc = id,
                                 !.seen = members[id].sessions])
       ELSE reqs' = Accept([Request("call_join", r, u) EXCEPT
                              !.step = "rejoining"])
    /\ UNCHANGED <<connections, connection_map, inbox, pc, remaining_conns,
                   participants, producers, next_pid, budget, close_op,
                   leaves, posts, hpc, engvars, failed, wkvars,
                   conference_status, members, participant_count, routers,
                   invite, tenant_members>>

\* the second find_one
JoinRejoining(i) ==
    /\ reqs[i].kind = "call_join" /\ reqs[i].step = "rejoining"
    /\ LET re == rejoining(members, reqs[i].room, reqs[i].user) IN
       IF re # {}
       THEN \E id \in re :
               reqs' = [reqs EXCEPT ![i].step = "push", ![i].doc = id,
                                    ![i].inc = 1,
                                    ![i].seen = members[id].sessions]
       ELSE reqs' = [reqs EXCEPT ![i].step = "insert", ![i].inc = 1]
    /\ UNCHANGED <<wsvars, engvars, wkvars, conference_status, members,
                   participant_count, routers, invite, tenant_members>>

\* the update_one of either branch
JoinPush(i) ==
    /\ reqs[i].kind = "call_join" /\ reqs[i].step = "push"
    /\ members' = push_session(members, reqs[i].doc)
    /\ reqs' = [reqs EXCEPT ![i].step = "finish", ![i].added = TRUE]
    /\ UNCHANGED <<wsvars, engvars, wkvars, conference_status,
                   participant_count, routers, invite, tenant_members>>

\* the insert_one of the third branch; a duplicate key error ends the request
JoinInsert(i) ==
    /\ reqs[i].kind = "call_join" /\ reqs[i].step = "insert"
    /\ LET res == insert_one(members,
                              RoomMember(reqs[i].room, reqs[i].user)) IN
       /\ members' = res.members
       /\ IF res.ok
          THEN reqs' = [reqs EXCEPT ![i].step = "finish", ![i].added = TRUE,
                                    ![i].doc = Len(res.members)]
          ELSE Reject(i, 500, "insert_one")
    /\ UNCHANGED <<wsvars, engvars, wkvars, conference_status,
                   participant_count, routers, invite, tenant_members>>

\* $inc participant_count where the branch has one, then the route's
\* room:call_updated to the members of the room
JoinFinish(i) ==
    /\ reqs[i].kind = "call_join" /\ reqs[i].step = "finish"
    /\ participant_count' =
         [participant_count EXCEPT ![reqs[i].room] = @ + reqs[i].inc]
    /\ inbox' = broadcast(inbox, find_member_user_ids(members, reqs[i].room),
                          Msg("room:call_updated", reqs[i].user, reqs[i].room,
                              i, 0))
    /\ reqs' = [reqs EXCEPT ![i].step = "done", ![i].status = 200]
    /\ UNCHANGED <<connections, connection_map, pc, remaining_conns,
                   participants, producers, next_pid, nops, budget, close_op,
                   leaves, posts, hpc, engvars, failed, wkvars,
                   conference_status, members, routers, invite,
                   tenant_members>>

\* ------------------------------------------------------- routes/invite.rs
InviteCode == "inv"

\* InviteDao::validate on the invite as it was read (no expiry in the model);
\* max_uses 0 stands for an invite without a limit
validate(inv) ==
    /\ inv.status = "active"
    /\ (inv.max_uses # 0 => inv.use_count < inv.max_uses)

\* TenantDao::add_member
add_member(tm, user_id) == tm \cup {user_id}

increment_use_count_unfiltered(inv) ==
    [ok |-> TRUE, invite |-> [inv EXCEPT !.use_count = @ + 1]]

\* InviteDao::increment_use_count, the find_one_and_update: one atomic
\* filtered increment
increment_use_count(inv) ==
    IF inv.status = "active" /\ (inv.max_uses = 0 \/ inv.use_count < inv.max_uses)
    THEN [ok |-> TRUE, invite |-> [inv EXCEPT !.use_count = @ + 1]]
    ELSE [ok |-> FALSE, invite |-> inv]

\* POST /invite/{code}/accept: find_by_code and validate
AcceptBegin(u) ==
    /\ nops < budget
    /\ nops' = nops + 1
    /\ reqs' = Accept(
         IF validate(invite)
         THEN [Request("accept", InviteCode, u) EXCEPT !.step = "is_member"]
         ELSE [Request("accept", InviteCode, u) EXCEPT
                  !.status = 400, !.failed_at = "validate"])
    /\ UNCHANGED <<connections, connection_map, inbox, pc, remaining_conns,
                   participants, producers, next_pid, budget, close_op,
                   leaves, posts, hpc, engvars, failed, wkvars, conference_status,
                   members, participant_count, routers, invite,
                   tenant_members>>

AcceptIsMember(i) ==
    /\ reqs[i].kind = "accept" /\ reqs[i].step = "is_member"
    /\ IF is_member(tenant_members, reqs[i].user)
       THEN Reject(i, 409, "is_member")
       ELSE reqs' = [reqs EXCEPT ![i].step = "add_member"]
    /\ UNCHANGED <<wsvars, engvars, wkvars, conference_status, members,
                   participant_count, routers, invite, tenant_members>>

AcceptAddMember(i) ==
    /\ reqs[i].kind = "accept" /\ reqs[i].step = "add_member"
    /\ tenant_members' = add_member(tenant_members, reqs[i].user)
    /\ reqs' = [reqs EXCEPT ![i].step = "increment", ![i].added = TRUE]
    /\ UNCHANGED <<wsvars, engvars, wkvars, conference_status, members,
                   participant_count, routers, invite>>

AcceptIncrement(i) ==
    /\ reqs[i].kind = "accept" /\ reqs[i].step = "increment"
    /\ LET res == increment_use_count(invite) IN
       /\ invite' = res.invite
       /\ IF ~res.ok THEN Reject(i, 400, "increment")
          ELSE IF res.invite.max_uses # 0
                  /\ res.invite.use_count >= res.invite.max_uses
          THEN reqs' = [reqs EXCEPT ![i].step = "exhaust"]
          ELSE reqs' = [reqs EXCEPT ![i].step = "done", ![i].status = 200]
    /\ UNCHANGED <<wsvars, engvars, wkvars, conference_status, members,
                   participant_count, routers, tenant_members>>

\* the second update of increment_use_count: status "exhausted"
AcceptExhaust(i) ==
    /\ reqs[i].kind = "accept" /\ reqs[i].step = "exhaust"
    /\ invite' = [invite EXCEPT !.status = "exhausted"]
    /\ reqs' = [reqs EXCEPT ![i].step = "done", ![i].status = 200]
    /\ UNCHANGED <<wsvars, engvars, wkvars, conference_status, members,
                   participant_count, routers, tenant_members>>

\* ------------------------------------------------------------- ws_upgrade
\* A token as the server sees it: whether its signature and expiry verify,
\* and its subject, a string of `len` characters that are all hexadecimal
\* digits or not.
Subjects ==
    {[len |-> 24, hex |-> TRUE], [len |-> 24, hex |-> FALSE],
     [len |-> 23, hex |-> TRUE]}

Tokens == [verifies : BOOLEAN, sub : Subjects]

\* AuthService::verify_access_token
verify_access_token(token) == [ok |-> token.verifies, sub |-> token.sub]

\* ObjectId::parse_str: 24 hexadecimal digits
parse_str(sub) == sub.len = 24 /\ sub.hex

\* an upgrade handler that does not look at the result of the verification
ws_upgrade_lenient(token) ==
    IF ~parse_str(token.sub) THEN 400 ELSE 101

\* ws_upgrade: the status of the response
ws_upgrade(token) ==
    LET claims == verify_access_token(token) IN
    IF ~claims.ok THEN 401
    ELSE IF ~parse_str(claims.sub) THEN 400
    ELSE 101

\* GET /ws?token=.. from the client of socket c
WsUpgrade(c, token) ==
    /\ pc[c] = "new"
    /\ \A i \in DOMAIN reqs : ~(reqs[i].conn = c /\ reqs[i].status = 101)
    /\ nops < budget
    /\ nops' = nops + 1
    /\ reqs' = Accept([Request("ws_upgrade", NoRoom, UserOf(c)) EXCEPT
                          !.status = ws_upgrade(token), !.conn = c,
                          !.token = token])
    /\ UNCHANGED <<connections, connection_map, inbox, pc, remaining_conns,
                   participants, producers, next_pid, budget, close_op,
                   leaves, posts, hpc, engvars, failed, wkvars,
                   conference_status, members, participant_count, routers,
                   invite, tenant_members>>

\* ws.on_upgrade(move |socket| handle_socket(socket, state, user_id))
OnUpgrade(c) ==
    /\ \E i \in DOMAIN reqs : reqs[i].conn = c /\ reqs[i].status = 101
    /\ Connect(c)

\* ------------------------------------------------------------------- Next
Lifecycle ==
    \/ \E c \in Conns : Connect(c)
    \/ \E c \in Conns : SocketClose(c)
    \/ \E c \in Conns : CleanupRemove(c)
    \/ \E c \in Conns : CleanupStopPlaybacks(c)
    \/ \E c \in Conns : CleanupParticipant(c)
    \/ \E c \in Conns : CleanupNotify(c)

NextWs ==
    \/ Lifecycle
    \/ \E c \in Conns : Ping(c)
    \/ \E c \in Conns, r \in Rooms, type \in {"typing:start", "typing:stop"} :
          Typing(c, r, type)
    \/ \E c \in Conns : Presence(c)
    \/ \E c \in Conns, r \in Rooms : MediaJoin(c, r, TRUE)
    \/ \E c \in Conns : MediaJoin(c, GhostRoom, FALSE)
    \/ \E c \in Conns, r \in Rooms, kind \in {"audio", ""} :
          MediaProduce(c, r, kind, TRUE)
    \/ \E c \in Conns, r \in Rooms, pid \in 1..MaxOps :
          MediaProducerClose(c, r, pid)
    \/ \E c \in Conns, r \in Rooms \cup {GhostRoom} : MediaLeave(c, r)
    \/ \E u \in Users, r \in Rooms, mention \in {"none", "everyone", "u1"} :
          HttpMessageCreate(u, r, mention)

SpecWs == InitWs /\ [][NextWs]_vars

\* the media handlers alone, with frames that are malformed or refused
NextMedia ==
    \/ \E c \in Conns, r \in {"r1", ""} : MediaJoin(c, r, TRUE)
    \/ \E c \in Conns, r \in {"r1", ""}, kind \in {"audio", ""} :
          MediaProduce(c, r, kind, TRUE)
    \/ \E c \in Conns, r \in {"r1", ""}, pid \in 0..1, compatible \in BOOLEAN :
          MediaConsume(c, r, pid, compatible)
    \/ \E c \in Conns, r \in {"r1", ""} : MediaConnectTransport(c, r, TRUE)
    \/ \E c \in Conns : MediaConnectTransport(c, "r1", FALSE)
    \/ \E c \in Conns : MediaLeave(c, "r1")
    \/ \E c \in Conns : MediaLeaveMalformed(c)

SpecMedia == InitWs /\ [][NextMedia]_vars

\* a call in r1 in which c1 sends audio: connections join it (again), and
\* produce, close producers and leave while others are joining
InitRejoin ==
    InitWith(FALSE, MaxOps, {Conns}, {"r1"},
             {[id |-> 1, conn |-> "c1", kind |-> "audio"]}, {FALSE})

NextRejoin ==
    \/ \E c \in Conns, created \in BOOLEAN : MediaJoinBegin(c, "r1", created)
    \/ \E c \in Conns : MediaJoinCaps(c)
    \/ \E c \in Conns : MediaJoinTransport(c)
    \/ \E c \in Conns : MediaJoinProducers(c)
    \/ \E c \in Conns : MediaProduce(c, "r1", "audio", TRUE)
    \/ \E c \in Conns : \E p \in producers["r1"] :
          MediaProducerClose(c, "r1", p.id)
    \/ \E c \in Conns : MediaLeave(c, "r1")
    \/ \E c \in Conns : SocketClose(c)

SpecRejoin == InitRejoin /\ [][NextRejoin]_vars

\* a server nobody is connected to yet, and clients with all kinds of tokens
InitUpgrade == InitWith(FALSE, MaxUpgradeOps, {{}}, {NoRoom}, {}, {FALSE})

NextUpgrade ==
    \/ \E c \in {"c1", "c3"}, token \in Tokens : WsUpgrade(c, token)
    \/ \E c \in Conns : OnUpgrade(c)
    \/ \E c \in Conns : Ping(c)

SpecUpgrade == InitUpgrade /\ [][NextUpgrade]_vars

\* the call endpoints of the rooms, on a server nobody is connected to yet
InitCall ==
    /\ InitMedia(FALSE, MaxCallOps, {Conns}, {NoRoom}, {}, {FALSE})
    /\ InitCalls({"idle", "in_progress", "ended"}, Users, {1})

\* invitations to a tenant nobody has joined yet
InitInvite ==
    /\ InitMedia(FALSE, MaxAccepts, {Conns}, {NoRoom}, {}, {FALSE})
    /\ InitCalls({"idle"}, {}, {1, 2})

NextInvite ==
    \/ \E u \in Users : AcceptBegin(u)
    \/ \E i \in DOMAIN reqs :
          \/ AcceptIsMember(i)
          \/ AcceptAddMember(i)
          \/ AcceptIncrement(i)
          \/ AcceptExhaust(i)

SpecInvite == InitInvite /\ [][NextInvite]_vars

\* the members that start and end the calls; every member joins
Organizers == {"u1"}

NextCall ==
    \/ \E u \in Organizers, r \in Rooms : CallStartBegin(u, r)
    \/ \E i \in DOMAIN reqs : CallStartFinish(i)
    \/ \E u \in Organizers, r \in Rooms : CallEndBegin(u, r)
    \/ \E i \in DOMAIN reqs : CallEndFinish(i)
    \/ \E u \in Users, r \in Rooms : CallJoin(u, r)

SpecCall == InitCall /\ [][NextCall]_vars

\* joins of calls in progress, which may overlap
InitJoin ==
    /\ InitMedia(FALSE, MaxJoinOps, {{"c1", "c3"}}, {NoRoom}, {}, {FALSE})
    /\ InitCalls({"in_progress"}, Users, {1})

NextJoin ==
    \/ \E u \in Users, r \in Rooms : JoinBegin(u, r)
    \/ \E i \in DOMAIN reqs :
          \/ JoinRejoining(i)
          \/ JoinPush(i)
          \/ JoinInsert(i)
          \/ JoinFinish(i)

SpecJoin == InitJoin /\ [][NextJoin]_vars

\* joins and leaves of calls in progress by users whose sockets are in r1's
\* media session, one request at a time
InitLeave ==
    /\ InitMedia(FALSE, MaxJoinOps, {{"c1", "c3"}}, {"r1"}, {}, {FALSE})
    /\ InitCalls({"in_progress"}, Users, {1})

NextLeave ==
    \/ \E u \in Users, r \in Rooms : CallJoin(u, r)
    \/ \E u \in Users, r \in Rooms : CallLeave(u, r)

SpecLeave == InitLeave /\ [][NextLeave]_vars

\* calls started and ended on rooms while two sockets are in r1's media
\* session
InitEnd ==
    /\ InitMedia(FALSE, MaxCallOps, {{"c1", "c3"}}, {"r1"}, {}, {FALSE})
    /\ InitCalls({"in_progress"}, Users, {1})

NextEnd ==
    \/ \E u \in Organizers, r \in Rooms : CallStartBegin(u, r)
    \/ \E i \in DOMAIN reqs : CallStartFinish(i)
    \/ \E u \in Organizers, r \in Rooms : CallEndBegin(u, r)
    \/ \E i \in DOMAIN reqs : CallEndFinish(i)
    \/ \E c \in Conns, r \in Rooms : MediaLeave(c, r)

SpecEnd == InitEnd /\ [][NextEnd]_vars

\* the rooms and the playback ids the engine operations are driven with
EngRooms == {"r1"}
PlaybackIds == DOMAIN workers

NextEng ==
    \/ \E c \in Conns : SocketClose(c)
    \/ \E c \in Conns : CleanupRemove(c)
    \/ \E c \in Conns : CleanupStopPlaybacks(c)
    \/ \E c \in Conns : CleanupParticipant(c)
    \/ \E c \in Conns : CleanupNotify(c)
    \/ \E c \in Conns, r \in EngRooms : MediaProduce(c, r, "audio", TRUE)
    \/ \E c \in Conns : ProducePipeline(c)
    \/ \E c \in Conns, r \in EngRooms : \E p \in producers[r] :
          MediaProducerClose(c, r, p.id)
    \/ \E c \in Conns, r \in EngRooms : ToggleOn(c, r, DefaultBackend)
    \/ \E c \in Conns : TogglePipelines(c)
    \/ \E c \in Conns, r \in EngRooms : ToggleOff(c, r)
    \/ \E c \in Conns, r \in EngRooms : PlayAudio(c, r)
    \/ \E c \in Conns, r \in EngRooms, k \in PlaybackIds : StopAudio(c, r, k)
    \/ \E t \in DOMAIN tasks : WorkerPublish(t, TRUE)
    \/ \E t \in DOMAIN tasks : WorkerExit(t)
    \/ \E i \in DOMAIN btasks : BroadcastStep(i)

SpecEng == InitEng /\ [][NextEng]_vars

\* file playbacks on a runtime that runs the spawned task at once
NextSpawn ==
    \/ \E c \in Conns, r \in EngRooms : PlayAudioSpawn(c, r)
    \/ \E c \in Conns : PlayAudioInsert(c)
    \/ \E c \in Conns, r \in EngRooms, k \in PlaybackIds : StopAudio(c, r, k)
    \/ \E t \in DOMAIN tasks : WorkerPublish(t, TRUE)
    \/ \E t \in DOMAIN tasks : WorkerExit(t)
    \/ \E i \in DOMAIN btasks : BroadcastStep(i)

SpecSpawn == InitEng /\ [][NextSpawn]_vars

\* the live worker of producer 1 in r1, from its first packet on
InitWorker ==
    InitWith(TRUE, 0, {{"c1", "c3"}}, {"r1"},
             {[id |-> 1, conn |-> "c1", kind |-> "audio"]}, {TRUE})

NextWorker ==
    \/ \E audio \in {"speech", "silence"}, lost \in {"none", "speech", "silence"},
          due \in BOOLEAN : Ingest(audio, lost, due)
    \/ RtpClose
    \/ IngestionExit
    \/ \E result \in {AsrOk(<<"hello">>), AsrOk(<<"You">>), AsrError} :
          AsrTurn(result)
    \/ WorkerReturn
    \/ WorkerAbort
    \/ WorkerCancel

SpecWorker == InitWorker /\ [][NextWorker]_vars

\* the same worker on a runtime that keeps polling tasks that can proceed,
\* with a recognizer that always answers
FairWorker ==
    /\ WF_vars(IngestionExit)
    /\ WF_vars(\E result \in {AsrOk(<<"hello">>), AsrOk(<<"You">>), AsrError} :
                 AsrTurn(result))
    /\ WF_vars(WorkerReturn)

SpecWorkerLive == SpecWorker /\ FairWorker

\* what the recognizer answers: nothing, blanks, plain text, and the known
\* placeholders in several spellings, alone or inside a longer text
AsrTexts ==
    {<<>>, <<" ">>, <<" ", "hello", " ">>, <<"hello", " ", "you">>,
     <<"you">>, <<" ", "You">>, <<"Thank You.">>,
     <<"THANKS FOR WATCHING!">>, <<"[BLANK_AUDIO]">>,
     <<"hello", " ", "[Silence]">>, <<"[MUSIC]", " ">>, <<"(Music)">>,
     <<"(SILENCE)">>}

AsrResults == {AsrOk(t) : t \in AsrTexts} \cup {AsrError}

FileAudios ==
    UNION {[1..n -> {"speech", "silence"}] : n \in 1..MaxFileChunks}

\* a live worker and a file playback worker with a recognizer that answers
\* anything
NextAsr ==
    \/ \E audio \in {"speech", "silence"} : Ingest(audio, "none", TRUE)
    \/ RtpClose
    \/ IngestionExit
    \/ \E result \in AsrResults : AsrTurn(result)
    \/ WorkerReturn
    \/ \E audio \in FileAudios : FilePlaybackStart(audio, TRUE)
    \/ \E result \in AsrResults : FilePlaybackTurn(result)
    \/ FilePlaybackReturn

SpecAsr == InitWorker /\ [][NextAsr]_vars

\* two users in a call in r1, both sending audio, transcription not enabled
\* yet; the handlers run on several threads
InitPipe ==
    InitWith(TRUE, MaxPipeOps, {{"c1", "c3"}}, {"r1"},
             {[id |-> 1, conn |-> "c1", kind |-> "audio"],
              [id |-> 2, conn |-> "c3", kind |-> "audio"]}, {FALSE})

NextPipe ==
    \/ \E c \in Conns : ToggleOn(c, "r1", DefaultBackend)
    \/ \E c \in Conns : ToggleProducers(c)
    \/ \E c \in Conns : PipelineSpawn(c)
    \/ \E c \in Conns : PipelineInsert(c)
    \/ \E c \in Conns : ToggleFinish(c)
    \/ \E c \in Conns : ToggleOff(c, "r1")
    \/ \E t \in DOMAIN tasks : WorkerFail(t)
    \/ \E t \in DOMAIN tasks : WorkerExit(t)

SpecPipe == InitPipe /\ [][NextPipe]_vars

\* an enabled room whose worker publishes while the broadcast task of the
\* room is slow to take the events
InitLag ==
    InitWith(TRUE, MaxLagEvents, {{"c1", "c3"}}, {"r1"},
             {[id |-> 1, conn |-> "c1", kind |-> "audio"]}, {TRUE})

NextLag ==
    \/ \E t \in DOMAIN tasks : WorkerPublish(t, TRUE)
    \/ \E i \in DOMAIN btasks : BroadcastStep(i)

SpecLag == InitLag /\ [][NextLag]_vars

\* the WAV files played back, and what the recognizer answers for a segment
FileClips ==
    UNION {[1..n -> {"speech", "silence"}] : n \in 1..MaxClipChunks}

ClipResults ==
    {AsrOk(<<"hello">>), AsrOk(<<" ", "you", " ">>), AsrOk(<<"(Music)">>),
     AsrError}

\* one file playback worker, whose detector may fail to load
NextFile ==
    \/ \E audio \in FileClips : \E vad_ok \in BOOLEAN :
           FilePlaybackStart(audio, vad_ok)
    \/ \E result \in ClipResults : FilePlaybackTurn(result)
    \/ FilePlaybackReturn

SpecFile == InitWorker /\ [][NextFile]_vars


\* ======================================================== signaling claims
\* the frames of sink x that request `op` of connection (or user) `from` caused
Frames(x, type, from, op) ==
    {i \in DOMAIN inbox[x] :
        /\ inbox[x][i].type = type
        /\ inbox[x][i].from = from
        /\ inbox[x][i].op = op}

FanoutTypes ==
    {"typing:start", "typing:stop", "presence:update", "media:new_producer",
     "media:producer_closed", "media:peer_left", "media:transcript_status",
     "media:audio_playback"}

PeerEventTypes ==
    {"media:new_producer", "media:producer_closed", "media:peer_left"}

TypingTypes == {"typing:start", "typing:stop"}

C2_DisconnectNotifiesPeersOnce ==
    \A c \in Conns :
        (pc[c] = "done" /\ remaining_conns[c].room # NoRoom) =>
            \A x \in Conns :
                LET n == Cardinality(Frames(x, "media:peer_left", c, close_op[c]))
                    peer == x \in SeqToSet(remaining_conns[c].conns)
                IN /\ n <= 1
                   /\ (peer /\ pc[x] = "open") =>
                         /\ n = 1
                         /\ \A i \in Frames(x, "media:peer_left", c, close_op[c]) :
                               inbox[x][i].ok
                   /\ (~peer \/ x = c) => n = 0

\* a closed connection with two surviving peers, one of them of the same user
C2_Witness ==
    \E c \in Conns :
        /\ pc[c] = "done"
        /\ \E x \in Conns, y \in Conns :
              /\ x # y /\ x # c /\ y # c /\ UserOf(x) = UserOf(c)
              /\ Frames(x, "media:peer_left", c, close_op[c]) # {}
              /\ Frames(y, "media:peer_left", c, close_op[c]) # {}

\* C3: for every handled media:leave of connection c for room r, every other
\* participant of r whose socket is open holds exactly one media:peer_left of
\* that leave, and c and the connections outside r hold none.
C3_LeaveNotifiesPeersOnce ==
    \A l \in leaves : \A x \in Conns :
        LET n == Cardinality(Frames(x, "media:peer_left", l.conn, l.op)) IN
        /\ n <= 1
        /\ (x \in l.peers /\ x \in l.up) =>
              /\ n = 1
              /\ \A i \in Frames(x, "media:peer_left", l.conn, l.op) : inbox[x][i].ok
        /\ (x \notin l.peers) => n = 0

\* a leave by a participant with a same-user peer and another peer
C3_Witness ==
    \E l \in leaves :
        /\ l.member
        /\ \E x \in l.peers, y \in l.peers :
              /\ x # y /\ UserOf(x) = UserOf(l.conn)
              /\ Frames(x, "media:peer_left", l.conn, l.op) # {}
              /\ Frames(y, "media:peer_left", l.conn, l.op) # {}

\* C4: in every reachable registry state, a broadcast addressed to user u
\* appends the frame once to the sink of each connection registered for u and
\* leaves every other sink as it was.
RegisteredOf(u) ==
    {c \in DOMAIN connection_map : connection_map[c][1] = u}

IsMember(r, u) == u \in SeqToSet(RoomMembers[r])

C7_OneBroadcastTaskPerActivation ==
    \A r \in Rooms :
        /\ epoch[r].spawns = IF r \in broadcast_active THEN 1 ELSE 0
        /\ epoch[r].enables >= 1 => r \in broadcast_active

\* two enabling toggles were handled for a room and one task was spawned
C7_Witness ==
    \E r \in Rooms :
        /\ epoch[r].enables >= 2
        /\ epoch[r].spawns = 1
        /\ Cardinality({i \in DOMAIN btasks : btasks[i].room = r}) = 1
        /\ \E x \in Conns :
              Cardinality({i \in DOMAIN inbox[x] :
                  inbox[x][i].type = "media:transcript_status"}) >= 2

\* what holds of room r right after a step, given the table before it
DisabledPost(r) ==
    /\ r \notin DOMAIN room_models'
    /\ \A k \in DOMAIN workers' : ~(k.room = r)
    /\ \A k \in DOMAIN workers :
          k.room = r =>
             /\ tasks'[workers[k]].abort_called
             /\ tasks'[workers[k]].status # "running"
    /\ r \notin broadcast_active'

C9_FlagClearedAfterTaskExit ==
    \A i \in DOMAIN btasks :
        btasks[i].status = "running" => btasks[i].room \in broadcast_active


\* the connections registered in either table of the registry
Registered ==
    DOMAIN connection_map \cup
    UNION {SeqToSet(connections[u]) : u \in DOMAIN connections}

InCleanup(c) == pc[c] \in {"closing", "removed", "stopped", "parted"}

\* C10: in the cleanup of a closed socket c, (1) the playbacks c owns are
\* stopped and its playback list dropped only when c is already out of the
\* registry, (2) the participant of c is closed only after that, and the peer
\* list kept for the notification is the room's other participants as they
\* were before the participant was closed, (3) a media:peer_left for c's
\* close is written only when c's participant is already closed, and only to
\* a connection of that peer list.
C10_CleanupOrder ==
    [][\A c \in Conns :
        /\ (c \in DOMAIN connection_playbacks
              /\ c \notin DOMAIN connection_playbacks') =>
              /\ c \notin Registered
              /\ \A k \in SeqToSet(connection_playbacks[c]) :
                    k \notin DOMAIN workers'
        /\ (InCleanup(c) /\ \E r \in Rooms :
                c \in participants[r] /\ c \notin participants'[r]) =>
              /\ c \notin Registered
              /\ c \notin DOMAIN connection_playbacks
              /\ SeqToSet(remaining_conns'[c].conns) =
                    participants[get_connection_room(c)] \ {c}
        /\ \A x \in Conns :
              Frames(x, "media:peer_left", c, close_op[c])' #
                 Frames(x, "media:peer_left", c, close_op[c]) =>
                 /\ \A r \in Rooms : c \notin participants[r]
                 /\ x \in SeqToSet(remaining_conns[c].conns)
      ]_vars

\* a connection that started a file playback and was in a call has been
\* cleaned up: its playback worker is aborted and its peer was notified
C10_Witness ==
    \E c \in Conns, t \in DOMAIN tasks, x \in Conns :
        /\ pc[c] = "done"
        /\ tasks[t].key.kind = "file" /\ tasks[t].status = "aborted"
        /\ Frames(x, "media:audio_playback", c, close_op[c] - 1) # {}
        /\ \A i \in Frames(x, "media:audio_playback", c, close_op[c] - 1) :
              inbox[x][i].ref = t
        /\ Frames(x, "media:peer_left", c, close_op[c]) # {}


\* --------------------------------------------------------- worker claims
\* C6 as stated: among the events a live worker published, no PARTIAL comes
\* after a FINAL with the same segment_id, and once the worker has returned
\* without having been aborted every published PARTIAL has a published FINAL
\* with its segment_id.
C6_FinalFollowsEveryPartial ==
    /\ \A i \in DOMAIN published, j \in DOMAIN published :
          (i < j /\ published[i].is_final
             /\ published[i].segment_id = published[j].segment_id)
          => published[j].is_final
    /\ wstatus = "returned" =>
          \A i \in DOMAIN published :
             ~published[i].is_final =>
                \E j \in DOMAIN published :
                   /\ j > i
                   /\ published[j].is_final
                   /\ published[j].segment_id = published[i].segment_id


\* C11: a call_join on a room whose call has ended fails with an error and
\* records no new participant session
C11_JoinEndedCallFails ==
    \A i \in DOMAIN reqs :
        (reqs[i].kind = "call_join" /\ reqs[i].was = "ended"
            /\ reqs[i].step = "done")
            => (reqs[i].status # 200 /\ ~reqs[i].added)

\* the call_start and call_end requests of a room that passed the membership
\* test, in the order of their arrival
CallReqs(r) ==
    {i \in DOMAIN reqs : reqs[i].kind \in CallKinds /\ reqs[i].room = r
                            /\ reqs[i].status # 403}

LastCallReq(r, i) == \A k \in CallReqs(r) : k <= i

NextCallReq(r, i, k) ==
    k \in CallReqs(r) /\ i < k /\ \A h \in CallReqs(r) : ~(i < h /\ h < k)

Alone(i) == reqs[i].step = "done" /\ ~reqs[i].overlap

\* C12: after call_start and then call_end the room is ended and has no media
\* router; a call_start after that is rejected or creates a fresh router
C12_EndClosesStartRenews ==
    \A r \in Rooms : \A i, j \in CallReqs(r) :
        (/\ reqs[i].kind = "call_start" /\ reqs[j].kind = "call_end"
         /\ NextCallReq(r, i, j) /\ Alone(j))
        => /\ LastCallReq(r, j)
                => (conference_status[r] = "ended" /\ routers[r] = 0)
           /\ \A k \in CallReqs(r) :
                (/\ NextCallReq(r, j, k) /\ reqs[k].kind = "call_start"
                 /\ Alone(k) /\ LastCallReq(r, k))
                => \/ reqs[k].status # 200
                   \/ /\ routers[r] = k + 1
                      /\ conference_status[r] = "in_progress"

C12_Witness ==
    \E r \in Rooms :
        /\ Len(reqs) = 3
        /\ \A i \in 1..3 : reqs[i].room = r /\ Alone(i) /\ reqs[i].status = 200
        /\ reqs[1].kind = "call_start" /\ reqs[2].kind = "call_end"
        /\ reqs[3].kind = "call_start"
        /\ routers[r] = 4

AcceptReqs == {i \in DOMAIN reqs : reqs[i].kind = "accept"}

Accepted == {i \in AcceptReqs : reqs[i].status = 200}

\* C13: when different users accept an invite of max_uses 1 at the same time,
\* exactly one of them succeeds with 200 and every other one is rejected
C13_ExactlyOneAccept ==
    invite.max_uses = 1
    => /\ Cardinality(Accepted) <= 1
       /\ (/\ \A i \in AcceptReqs : reqs[i].step = "done"
           /\ \E i, j \in AcceptReqs : reqs[i].user # reqs[j].user)
          => /\ Cardinality(Accepted) = 1
             /\ \A i \in AcceptReqs \ Accepted : reqs[i].status \in {400, 409}

C13_Witness ==
    /\ invite.max_uses = 1 /\ Len(reqs) = 2
    /\ reqs[1].user # reqs[2].user
    /\ reqs[1].overlap /\ reqs[2].overlap
    /\ \E i, j \in 1..2 :
          /\ reqs[i].status = 200
          /\ reqs[j].status = 400 /\ reqs[j].failed_at = "increment"

\* the markers of a placeholder text: these anywhere in the text, in any case
BracketMarkers == {"[blank_audio]", "[silence]", "[music]"}

\* and these as the whole text, in any case
PhraseMarkers == {"you", "thank you.", "thanks for watching!"}

MatchesMarker(text) ==
    \/ \E i \in DOMAIN text : Lower(text[i]) \in BracketMarkers
    \/ Len(text) = 1 /\ Lower(text[1]) \in PhraseMarkers

\* C14: no TranscriptEvent is published, by a live worker or by a file
\* playback, whose text matches a hallucination marker in any case
C14_NoHallucinationPublished ==
    \A i \in DOMAIN published : ~MatchesMarker(published[i].text)

\* both kinds of worker have been given placeholders in another case, and
\* each has published something else
C14_Witness ==
    /\ \E i \in DOMAIN published : published[i].worker = "live"
    /\ \E i \in DOMAIN published : published[i].worker = "file"
    /\ \E i \in DOMAIN published : published[i].text = <<"hello", " ", "you">>
    /\ wstatus = "returned" /\ fstatus = "finished"

\* C15: a failing media:produce or media:consume of connection C is reported
\* to C only: no other connection, of the same user or not, gets a frame of it
C15_FailureReportedToCallerOnly ==
    \A f \in failed :
        f.type \in {"media:produce", "media:consume"}
        => \A x \in Conns \ {f.conn} :
              \A i \in DOMAIN inbox[x] : inbox[x][i].op # f.op

\* C16: a media:* frame that fails validation causes a media:error to the
\* user it came from
C16_ValidationFailureReported ==
    \A f \in failed :
        f.at = "validation"
        => Frames(f.conn, "media:error", f.conn, f.op) # {}

\* C17: no entry of a worker whose top-level task has returned stays in the
\* worker table
C17_ReturnedWorkerHasNoEntry ==
    \A k \in DOMAIN workers : tasks[workers[k]].status # "finished"

C19_DrainThenTerminate ==
    /\ [](wstatus = "returned"
            => rtp_closed /\ ingestion = "done" /\ segment_tx = <<>>)
    /\ [][(wstatus' \in {"running", "returned"} /\ segment_tx # <<>>
             /\ segment_tx' # segment_tx /\ ingestion # "running")
            => /\ segment_tx' = Tail(segment_tx)
               /\ wstatus' = "running"]_vars
    /\ rtp_closed ~> (ingestion # "running")
    /\ rtp_closed ~> (wstatus # "running")

\* the channel has closed and the ingestion is over with two segments still
\* waiting for the ASR task
C19_Witness ==
    /\ rtp_closed /\ ingestion = "done"
    /\ wstatus = "running"
    /\ Len(segment_tx) >= 2

\* the media:audio_playback frames that name playback t, whoever got them
PlaybackFrames(t) ==
    {f \in UNION {SeqToSet(inbox[x]) : x \in Conns} :
        f.type = "media:audio_playback" /\ f.ref = t}

\* the connections whose media:play_audio started playback t: the first frame
\* that names it is the answer to its start
StartersOf(t) ==
    {f.from : f \in {g \in PlaybackFrames(t) :
                        \A h \in PlaybackFrames(t) : g.op <= h.op}}

\* the cleanup of the socket is past stop_connection_playbacks
PlaybacksStopped(c) == pc[c] \in {"stopped", "parted", "done"}

\* C20: when a WebSocket connection has closed, no file playback worker that
\* this connection started is still running
C20_ClosePlaybacksStopped ==
    \A t \in DOMAIN tasks :
        (tasks[t].key.kind = "file" /\ tasks[t].status = "running")
        => /\ StartersOf(t) # {}
           /\ \A c \in StartersOf(t) : ~PlaybacksStopped(c)

\* a connection started two playbacks, one of them was over before the socket
\* closed, the other was stopped by the cleanup
C20_Witness ==
    \E c \in Conns, t, u \in DOMAIN tasks :
        /\ t # u
        /\ tasks[t].key.kind = "file" /\ tasks[u].key.kind = "file"
        /\ StartersOf(t) = {c} /\ StartersOf(u) = {c}
        /\ PlaybacksStopped(c)
        /\ tasks[t].status = "aborted" /\ tasks[t].abort_called
        /\ tasks[u].status = "finished"

\* the joins that have added their session to document d
Pushed(d) ==
    {i \in DOMAIN reqs : reqs[i].kind = "call_join" /\ reqs[i].doc = d
                           /\ reqs[i].added}

BaseSessions(d) ==
    IF d \in DOMAIN InitialMembers THEN InitialMembers[d].sessions ELSE <<>>

\* C21: there is never more than one participant record per (room, user);
\* every join that was given a record adds exactly one session to it, and a
\* join of a user whose record has an open session succeeds on that record
C21_JoinAppendsToOneRecord ==
    /\ \A d, e \in DOMAIN members :
          (members[d].room_id = members[e].room_id
             /\ members[d].user_id = members[e].user_id) => d = e
    /\ \A d \in DOMAIN members :
          Len(members[d].sessions) =
             Len(BaseSessions(d)) + Cardinality(Pushed(d))
    /\ \A i \in DOMAIN reqs :
          (/\ reqs[i].kind = "call_join" /\ reqs[i].step = "done"
           /\ "open" \in SeqToSet(reqs[i].seen))
          => /\ reqs[i].status = 200 /\ reqs[i].added
             /\ members[reqs[i].doc].room_id = reqs[i].room
             /\ members[reqs[i].doc].user_id = reqs[i].user
             /\ Len(members[reqs[i].doc].sessions) > Len(reqs[i].seen)
             /\ SubSeq(members[reqs[i].doc].sessions, 1, Len(reqs[i].seen))
                   = reqs[i].seen

\* a user new to the room joined twice at once, one insert was refused, and a
\* later join found the open session and added a second one to the record
C21_Witness ==
    \E i, j, k \in DOMAIN reqs :
        /\ reqs[i].status = 200 /\ reqs[i].doc > Len(InitialMembers)
        /\ reqs[j].status = 500 /\ reqs[j].failed_at = "insert_one"
        /\ reqs[k].status = 200 /\ reqs[k].doc = reqs[i].doc
        /\ "open" \in SeqToSet(reqs[k].seen)
        /\ Len(members[reqs[i].doc].sessions) = 2

\* the segments of the live worker that are on their way to the recognizer,
\* and its published events, each with the utterance it was cut from
LiveSegments ==
    {[utterance |-> segment_tx[i].audio, is_final |-> segment_tx[i].is_final,
      segment_id |-> segment_tx[i].segment_id] : i \in DOMAIN segment_tx}
    \cup
    {[utterance |-> published[i].utterance, is_final |-> published[i].is_final,
      segment_id |-> published[i].segment_id] :
        i \in {j \in DOMAIN published : published[j].worker = "live"}}

SinksOf(u) == IF u \in DOMAIN connections THEN connections[u] ELSE <<>>

SinksAfter(u) == IF u \in DOMAIN connections' THEN connections'[u] ELSE <<>>

Occurrences(seq, x) == Cardinality({i \in DOMAIN seq : seq[i] = x})

\* what holds right after remove(UserOf(c), c, sink of c)
RemovedPost(c) ==
    /\ DOMAIN connection_map' = DOMAIN connection_map \ {c}
    /\ \A d \in DOMAIN connection_map' : connection_map'[d] = connection_map[d]
    /\ \A x \in Conns :
          Occurrences(SinksAfter(UserOf(c)), x) =
             IF x = c THEN 0 ELSE Occurrences(SinksOf(UserOf(c)), x)
    /\ UserOf(c) \in DOMAIN connections' <=>
          SeqToSet(SinksOf(UserOf(c))) \ {c} # {}
    /\ \A v \in DOMAIN connections \ {UserOf(c)} :
          v \in DOMAIN connections' /\ connections'[v] = connections[v]
    /\ DOMAIN connections' \subseteq DOMAIN connections

ProbeLists == {<<"u1">>, <<"u2">>, <<"u1", "u2">>, <<"u2", "u1">>}

\* the sinks a broadcast to these users writes to
SinksOfUsers(us) == UNION {SeqToSet(get_senders(us[i])) : i \in DOMAIN us}

\* the connections a message created over HTTP was addressed to
Addressees(p) ==
    {x \in p.registered :
        UserOf(x) # p.user /\ IsMember(p.room, UserOf(x))}

\* C24: in a broadcast, a failed write to one sink does not keep the message
\* from any other recipient sink: every sink of the broadcast gets the frame
\* once, written successfully wherever the socket is up
C24_FailedWriteDoesNotPoison ==
    /\ \A us \in ProbeLists :
          LET m == Msg("probe", NoConn, NoRoom, 0, 0)
              b == broadcast(inbox, us, m)
          IN (\E y \in SinksOfUsers(us) : ~SinkUp(y))
             => \A x \in SinksOfUsers(us) :
                   /\ Len(b[x]) = Len(inbox[x]) + 1
                   /\ b[x][Len(b[x])] = [m EXCEPT !.ok = SinkUp(x)]
    /\ \A p \in posts :
          (\E y \in Addressees(p) : y \notin p.up)
          => \A x \in Addressees(p) :
                /\ Frames(x, "message:create", p.user, p.op) # {}
                /\ \A i \in Frames(x, "message:create", p.user, p.op) :
                      inbox[x][i].ok = (x \in p.up)

\* a message was broadcast while one addressee's socket was closed and still
\* registered: the write to it failed, the others got the message
C24_Witness ==
    \E p \in posts : \E x, y \in Addressees(p) :
        /\ x \in p.up /\ y \notin p.up
        /\ UserOf(x) = UserOf(y)
        /\ \E i \in Frames(x, "message:create", p.user, p.op) : inbox[x][i].ok
        /\ \E i \in Frames(y, "message:create", p.user, p.op) : ~inbox[y][i].ok

UpgradeReqs == {i \in DOMAIN reqs : reqs[i].kind = "ws_upgrade"}

\* the connections that appear in either table of the registry or were sent
\* a frame
Known == Registered \cup {c \in Conns : inbox[c] # <<>> \/ pc[c] # "new"}

\* C25: an upgrade whose token fails verification is answered 401, one whose
\* token verifies but whose subject is no user id is answered 400, and a
\* connection is registered only for an upgrade whose token passed both
C25_BadTokenRejected ==
    /\ \A i \in UpgradeReqs :
          /\ ~reqs[i].token.verifies => reqs[i].status = 401
          /\ (reqs[i].token.verifies
                /\ ~(reqs[i].token.sub.len = 24 /\ reqs[i].token.sub.hex))
             => reqs[i].status = 400
    /\ \A c \in Known :
          \E i \in UpgradeReqs :
             /\ reqs[i].conn = c /\ reqs[i].status = 101
             /\ reqs[i].token.verifies
             /\ reqs[i].token.sub.len = 24 /\ reqs[i].token.sub.hex

\* one client was refused with 401 and then with 400 and is not registered,
\* another one got through and is
C25_Witness ==
    \E i, j, k \in UpgradeReqs :
        /\ reqs[i].status = 401 /\ reqs[j].status = 400
        /\ reqs[i].conn = reqs[j].conn
        /\ reqs[i].conn \notin Known
        /\ reqs[k].status = 101
        /\ reqs[k].conn \in DOMAIN connection_map
        /\ \E n \in DOMAIN inbox[reqs[k].conn] :
              inbox[reqs[k].conn][n].type = "connected"

JoinTypes ==
    {"media:router_capabilities", "media:transport_created",
     "media:new_producer"}

\* the place of a frame in the answer to media:join
JoinRank(type) ==
    CASE type = "media:router_capabilities" -> 1
      [] type = "media:transport_created" -> 2
      [] OTHER -> 3

\* the requests that were successful joins: those answered with the router's
\* capabilities
JoinOps ==
    {f.op : f \in {g \in UNION {SeqToSet(inbox[x]) : x \in Conns} :
                       g.type = "media:router_capabilities"}}

\* the frames of request n in the sink of x, by position
FramesOfOp(x, n) == {i \in DOMAIN inbox[x] : inbox[x][i].op = n}

\* the producers a step announces to c as the last part of its join
AnnouncedBy(c) ==
    {inbox'[c][i].ref : i \in (DOMAIN inbox'[c]) \ (DOMAIN inbox[c])}

FileFinals ==
    SelectSeq(published, LAMBDA e : e.worker = "file" /\ e.is_final)

C27_FileFinalsInOrder ==
    \A i, j \in DOMAIN FileFinals :
        i < j => FileFinals[i].start_time <= FileFinals[j].start_time

\* a file with two utterances, both transcribed and published
C27_Witness ==
    /\ fstatus = "finished"
    /\ Len(FileFinals) >= 2
    /\ FileFinals[1].utterance # FileFinals[2].utterance
    /\ FileFinals[1].start_time < FileFinals[2].start_time

\* C28: when the decoder, the resampler or the detector of a worker cannot
\* be constructed, only that worker exits and its entry leaves the table; the
\* workers of other producers keep running and the room stays enabled
C28_ConstructionFailureIsLocal ==
    /\ [](\A k \in DOMAIN workers : tasks[workers[k]].status # "failed")
    /\ [][\A t \in DOMAIN tasks : WorkerFail(t) =>
            /\ room_models' = room_models
            /\ \A u \in DOMAIN tasks :
                   tasks[u].key # tasks[t].key => tasks'[u] = tasks[u]
            /\ \A k \in DOMAIN workers :
                   k # tasks[t].key
                   => k \in DOMAIN workers' /\ workers'[k] = workers[k]]_vars

\* C29: at any time at most one transcription worker is running for a
\* producer key, also when two start_pipeline calls for the key run
\* concurrently
C29_OneRunningWorkerPerKey ==
    \A t, u \in DOMAIN tasks :
        (/\ tasks[t].key.kind = "live"
         /\ tasks[t].key = tasks[u].key
         /\ tasks[t].status = "running"
         /\ tasks[u].status = "running") => t = u

\* C30: at any time at most one transcript broadcast task is alive per room,
\* also across a disable followed by a re-enable, so each TranscriptEvent of a
\* room is forwarded to each connection in the room at most once
C30_OneBroadcastTaskPerRoom ==
    /\ \A i, j \in DOMAIN btasks :
          (/\ btasks[i].room = btasks[j].room
           /\ btasks[i].status = "running"
           /\ btasks[j].status = "running") => i = j
    /\ \A x \in Conns : \A a, b \in DOMAIN inbox[x] :
          (/\ inbox[x][a].type = "media:transcript"
           /\ inbox[x][b].type = "media:transcript"
           /\ inbox[x][a].op = inbox[x][b].op) => a = b

\* C31: whenever transcription is not enabled for a room, the worker table
\* holds no live-producer worker of that room
C31_NoLiveWorkerWhileDisabled ==
    \A r \in Rooms :
        ~is_enabled(Eng, r)
        => \A k \in DOMAIN workers : ~(k.kind = "live" /\ k.room = r)

\* C32: the table entry of a running worker is never removed by the cleanup
\* step of a different worker that used the same key, so every running worker
\* stays reachable through the table
C32_CleanupRemovesOwnEntryOnly ==
    [][\A t \in DOMAIN tasks :
          (tasks[t].status = "running"
             /\ tasks'[t].status \in {"finished", "failed"})
          => \A k \in DOMAIN workers :
                (workers[k] # t /\ tasks[workers[k]].status = "running")
                => (k \in DOMAIN workers' /\ workers'[k] = workers[k])]_vars

\* C33: while transcription stays enabled for a room, its broadcast task
\* stays alive, also when it falls behind on the TranscriptEvent channel
C33_BroadcastTaskSurvivesLag ==
    [][\A i \in DOMAIN btasks :
          (/\ btasks[i].status = "running"
           /\ is_enabled(Eng, btasks[i].room)
           /\ btasks[i].room \in DOMAIN room_models')
          => btasks'[i].status = "running"]_vars

\* C34: the users who became tenant members by accepting an invite are never
\* more than its max_uses, and an accept that is rejected has not made the
\* requester a member
C34_MembersWithinMaxUses ==
    /\ invite.max_uses # 0 => Cardinality(tenant_members) <= invite.max_uses
    /\ \A i \in AcceptReqs :
          (reqs[i].step = "done" /\ reqs[i].status # 200) => ~reqs[i].added

\* the users with an open call session in room r
InCall(r) ==
    {members[i].user_id :
        i \in {j \in DOMAIN members :
                  /\ members[j].room_id = r
                  /\ "open" \in SeqToSet(members[j].sessions)}}

\* C35: for every room participant_count equals the number of users with an
\* open call session in the room, and it is never negative
C35_ParticipantCountMatchesSessions ==
    \A r \in Rooms :
        /\ participant_count[r] = Cardinality(InCall(r))
        /\ participant_count[r] >= 0

\* C36: once every call_start and call_end request on a room has completed, the
\* room has a media router exactly when its call state is InProgress
C36_RouterIffInProgress ==
    \A r \in Rooms :
        (\A i \in DOMAIN reqs :
            (reqs[i].kind \in CallKinds /\ reqs[i].room = r)
            => reqs[i].step = "done")
        => (routers[r] # 0 <=> conference_status[r] = "in_progress")

\* C37: when call_end is processed for a room, every user who was a
\* participant of the room's media session at that moment is sent
\* media:room_closed
C37_RoomClosedReachesParticipants ==
    [][\A i \in DOMAIN reqs :
          (reqs[i].kind = "call_end" /\ reqs[i].step = "remove_room"
             /\ reqs'[i].step = "done")
          => \A c \in participants[reqs[i].room] :
                \E n \in DOMAIN inbox'[c] :
                    /\ n > Len(inbox[c])
                    /\ inbox'[c][n].type = "media:room_closed"
                    /\ inbox'[c][n].room = reqs[i].room]_vars

\* C38: media:peer_left naming a connection for a room is sent only if the
\* connection was a participant of the room immediately before; a media:leave
\* from a connection that is not in the room, a repeated one included,
\* produces no media:peer_left
C38_PeerLeftOnlyForParticipants ==
    \A l \in leaves :
        ~l.member
        => \A x \in Conns : Frames(x, "media:peer_left", l.conn, l.op) = {}

\* C39: a media:stop_audio message stops only a file-playback worker of the
\* room named in the message, never a live producer worker or a worker of
\* another room
C39_StopAudioStopsFilePlaybackOnly ==
    [][\A c \in Conns, r \in EngRooms, playback_id \in DOMAIN workers :
          StopAudio(c, r, playback_id)
          => \A k \in DOMAIN workers \ DOMAIN workers' :
                k.kind = "file" /\ k.room = r]_vars

\* C40: two different utterances of the same producer never carry the same
\* segment_id, also when concealment audio for lost packets is fed to the
\* detector between them
C40_UtterancesHaveDistinctIds ==
    \A x, y \in LiveSegments :
        x.utterance # y.utterance => x.segment_id # y.segment_id
====
